---- MODULE Spec2Model ----
(***************************************************************************)
(* State-machine model of the Archipelago client state manager of apdoom   *)
(* (src/src/archipelago/apdoom.cpp): the State Store, the event handlers   *)
(* (f_itemrecv, f_locrecv, ...), the persistence codec (save_state,        *)
(* load_state), the blocking handshake of apdoom_init and apdoom_update.   *)
(***************************************************************************)
EXTENDS Integers, Sequences, FiniteSets, TLC

(* ------------------------------ bounds -------------------------------- *)

\* Maps modelled per episode (the source has 9, 32 and 9 maps per episode).
MaxMap == 2

\* Capacity of ap_level_state_t::checks (AP_CHECK_MAX of apdoom.h), scaled.
AP_CHECK_MAX == 3

\* Ticks of 100 ms that make up the 10 second deadline of a blocking phase.
Deadline == 2

\* Most items the transport delivers while the player is not in game.
MaxQueue == 3

\* Most init attempts of one process.
MaxInits == 2

(* ------------------------- game profiles ------------------------------ *)

Games == {"doom", "doom2", "heretic"}

\* settings->game: the three supported titles and an unsupported one.
Titles == {"DOOM 1993", "DOOM II", "Heretic", "Hexen"}

TitleGame(title) ==
    CASE title = "DOOM 1993" -> "doom"
      [] title = "DOOM II"   -> "doom2"
      [] title = "Heretic"   -> "heretic"
      [] OTHER               -> "none"

ap_episode_count(g) ==
    CASE g = "doom" -> 4 [] g = "doom2" -> 1 [] g = "heretic" -> 5 [] OTHER -> 0

ap_map_count(g) == IF g \in Games THEN MaxMap ELSE 0

ap_weapon_count(g) == IF g \in Games THEN 9 ELSE 0

ap_ammo_count(g) ==
    CASE g = "doom" -> 4 [] g = "doom2" -> 4 [] g = "heretic" -> 6 [] OTHER -> 0

ap_powerup_count(g) ==
    CASE g = "doom" -> 6 [] g = "doom2" -> 6 [] g = "heretic" -> 9 [] OTHER -> 0

ap_inventory_count(g) == IF g = "heretic" THEN 14 ELSE 0

doom_max_ammos == <<200, 50, 300, 50>>

doom2_max_ammos == <<200, 50, 300, 50>>

heretic_max_ammos == <<100, 50, 200, 200, 20, 150>>

\* get_max_ammos(): the table of the active game (1-based here, 0-based there).
get_max_ammos(g) ==
    CASE g = "doom" -> doom_max_ammos
      [] g = "doom2" -> doom2_max_ammos
      [] g = "heretic" -> heretic_max_ammos
      [] OTHER -> << >>

doom_keys_map == [t \in {5, 40, 6, 39, 13, 38} |->
    CASE t \in {5, 40} -> 0 [] t \in {6, 39} -> 1 [] OTHER -> 2]

doom2_keys_map == [t \in {5, 40, 6, 39, 13, 38} |->
    CASE t \in {5, 40} -> 0 [] t \in {6, 39} -> 1 [] OTHER -> 2]

heretic_keys_map == [t \in {80, 73, 79} |->
    CASE t = 80 -> 0 [] t = 73 -> 1 [] OTHER -> 2]

get_keys_map(g) ==
    CASE g = "doom" -> doom_keys_map
      [] g = "doom2" -> doom2_keys_map
      [] OTHER -> heretic_keys_map

get_map_doom_type(g) ==
    CASE g = "doom" -> 2026 [] g = "doom2" -> 2026 [] OTHER -> 35

doom_weapons_map == [t \in {2001, 2002, 2003, 2004, 2006, 2005} |->
    CASE t = 2001 -> 2 [] t = 2002 -> 3 [] t = 2003 -> 4
      [] t = 2004 -> 5 [] t = 2006 -> 6 [] OTHER -> 7]

doom2_weapons_map == [t \in {2001, 2002, 2003, 2004, 2006, 2005, 82} |->
    CASE t = 2001 -> 2 [] t = 2002 -> 3 [] t = 2003 -> 4
      [] t = 2004 -> 5 [] t = 2006 -> 6 [] t = 2005 -> 7 [] OTHER -> 1]

heretic_weapons_map == [t \in {2005, 2001, 53, 2003, 2002, 2004} |->
    CASE t = 2005 -> 7 [] t = 2001 -> 2 [] t = 53 -> 3
      [] t = 2003 -> 5 [] t = 2002 -> 6 [] OTHER -> 4]

get_weapons_map(g) ==
    CASE g = "doom" -> doom_weapons_map
      [] g = "doom2" -> doom2_weapons_map
      [] OTHER -> heretic_weapons_map

(* ----------------------------- catalog -------------------------------- *)
(* The per-title tables (apdoom_def.h, apdoom2_def.h, apheretic_def.h) are *)
(* data: a small catalog of the same shape stands for them.                *)

\* First network id of a game's id range.
GameBase(g) == CASE g = "doom" -> 1000 [] g = "doom2" -> 2000 [] OTHER -> 3000

\* (episode, map, local index) triples that have a location; index -1 is the
\* level-completion location.  Level (2,1) has no completion location.
LocKeys ==
    { <<1, 1, -1>>, <<1, 1, 0>>, <<1, 1, 1>>, <<1, 1, 2>>,
      <<1, 2, -1>>, <<1, 2, 0>>,
      <<2, 1, 0>>, <<2, 2, -1>> }

LocId(g, ep, map, index) == GameBase(g) + 100 * ep + 10 * map + index + 1

\* No table is sized against AP_CHECK_MAX: level (2,1) of the Heretic catalog
\* has one location more than a checks array has slots.
CrowdedKeys == { <<2, 1, index>> : index \in 0..AP_CHECK_MAX }

LocKeysOf(g) == IF g = "heretic" THEN LocKeys \cup CrowdedKeys ELSE LocKeys

\* get_location_table(): episode -> map -> index -> network id, as a set of rows.
get_location_table(g) ==
    { [ep |-> k[1], map |-> k[2], index |-> k[3], id |-> LocId(g, k[1], k[2], k[3])] :
        k \in { kk \in LocKeysOf(g) : kk[1] <= ap_episode_count(g) /\ kk[2] <= ap_map_count(g) } }

\* Rows of the item table before the game's id range and types are applied:
\* <<number, kind, episode, map>>; items that belong to no level carry -1, -1.
ItemKeys ==
    { <<1, "key", 1, 1>>, <<2, "map", 1, 2>>, <<3, "backpack", -1, -1>>,
      <<4, "weapon", -1, -1>>, <<5, "unlock", 1, 2>>, <<6, "complete", 1, 1>>,
      <<7, "complete", 1, 2>>, <<8, "other", -1, -1>>, <<9, "complete", 2, 1>>,
      <<10, "complete", 2, 2>>, <<11, "unlock", 2, 1>> }

ItemDoomType(g, kind) ==
    CASE kind = "key"      -> (IF g = "heretic" THEN 80 ELSE 5)
      [] kind = "map"      -> get_map_doom_type(g)
      [] kind = "backpack" -> 8
      [] kind = "weapon"   -> 2001
      [] kind = "unlock"   -> -1
      [] kind = "complete" -> -2
      [] OTHER             -> 2011

ItemId(g, n) == GameBase(g) + 500 + n

\* get_item_type_table(): network id -> {doom_type, ep, map}, as a set of rows.
get_item_type_table(g) ==
    { [id |-> ItemId(g, k[1]), doom_type |-> ItemDoomType(g, k[2]), ep |-> k[3], map |-> k[4]] :
        k \in { kk \in ItemKeys : kk[3] <= ap_episode_count(g) /\ kk[4] <= ap_map_count(g) } }

\* Object types that have a display sprite (ap_heretic_type_sprites).
ap_heretic_type_sprites == {5, 80, 2001}

\* A network id no table of any game holds.
UnknownId == 99

(* --------------------------- state store ------------------------------ *)

\* A zero-based array of n elements, all equal to v (new T[n] after memset).
ZeroArray(n, v) == [i \in 0..(n - 1) |-> v]

\* ap_level_state_t after the memset and the checks[k] = -1 loop of apdoom_init.
FreshLevelState ==
    [completed |-> 0, keys |-> ZeroArray(3, 0), check_count |-> 0,
     checks |-> ZeroArray(AP_CHECK_MAX, -1),
     has_map |-> 0, unlocked |-> 0, special |-> 0, flipped |-> 0]

\* ap_state as the process starts: a zero-initialized global, no array allocated.
ZeroStore ==
    [player_state |->
        [health |-> 0, armor_points |-> 0, armor_type |-> 0, backpack |-> 0,
         ready_weapon |-> 0, kill_count |-> 0, item_count |-> 0, secret_count |-> 0,
         powers |-> << >>, weapon_owned |-> << >>, ammo |-> << >>, max_ammo |-> << >>,
         inventory |-> << >>],
     level_states |-> << >>, episodes |-> << >>,
     difficulty |-> 0, random_monsters |-> 0, random_items |-> 0, flip_levels |-> 0,
     two_ways_keydoors |-> 0, ep |-> 0, map |-> 0, victory |-> 0]

\* The max_ammo loop of apdoom_init: the catalog base value of every ammo type.
InitMaxAmmo(g) == [i \in 0..(ap_ammo_count(g) - 1) |-> get_max_ammos(g)[i + 1]]

\* ap_state after the allocation, the memsets and the default loadout of apdoom_init.
FreshStore(g) ==
    [ZeroStore EXCEPT
        !.player_state =
            [health |-> 100, armor_points |-> 0, armor_type |-> 0, backpack |-> 0,
             ready_weapon |-> 1, kill_count |-> 0, item_count |-> 0, secret_count |-> 0,
             powers |-> ZeroArray(ap_powerup_count(g), 0),
             weapon_owned |-> [i \in 0..(ap_weapon_count(g) - 1) |-> IF i \in {0, 1} THEN 1 ELSE 0],
             ammo |-> [i \in 0..(ap_ammo_count(g) - 1) |-> IF i = 0 THEN 50 ELSE 0],
             max_ammo |-> InitMaxAmmo(g),
             inventory |-> ZeroArray(ap_inventory_count(g), [type |-> 0, count |-> 0])],
        !.level_states = ZeroArray(ap_episode_count(g) * ap_map_count(g), FreshLevelState),
        !.episodes = ZeroArray(ap_episode_count(g), 0)]

(* ------------------------------ state --------------------------------- *)

VARIABLES
    ap_game,                  \* the GameProfile in force ("none" before the first init)
    ap_state,                 \* ap_state_t: player state, level states, session config
    ap_is_in_game,            \* set by the engine while a level is being played
    ap_item_queue,            \* items received while not in game
    ap_was_connected,         \* reached Authenticated at least once
    ap_progressive_locations, \* scouted progression locations
    ap_initialized,           \* init returned success
    ap_cached_messages,       \* messages drained before init returned
    ap_save_dir_name,         \* AP_<seed>_<hex(player)>, "" before authentication
    ap_notification_icons,    \* the on-screen item icons
    pc,                       \* start, connect, scout (inside apdoom_init), done, failed
                              \* (it returned 1, 0), exited (after apdoom_shutdown)
    elapsed,                  \* 100 ms ticks slept in the current blocking phase
    inits,                    \* init attempts made by this process
    transport,                \* the randomizer transport as the client sees it
    engine,                   \* calls made to the engine's callbacks
    disk,                     \* save directory -> apstate.json document, or NoFile
    mem_corrupt,              \* a write outside an allocated array has happened
    last                      \* the operation that produced this state, with its arguments

vars ==
    <<ap_game, ap_state, ap_is_in_game, ap_item_queue, ap_was_connected,
      ap_progressive_locations, ap_initialized, ap_cached_messages, ap_save_dir_name,
      ap_notification_icons, pc, elapsed, inits, transport, engine, disk, mem_corrupt,
      last>>

\* Room seeds a server may announce; the save directory is derived from the seed.
Seeds == {"s1", "s2"}

SaveDirName(seed) == IF seed = "s1" THEN "AP_s1_41" ELSE "AP_s2_41"

SaveDirs == { SaveDirName(s) : s \in Seeds }

\* The paths save_state can open: <dir>/apstate.json for the directories init
\* makes and, with the directory name still empty, /apstate.json.
SaveFiles == SaveDirs \cup {""}

NoFile == [exists |-> FALSE]

Statuses == {"Disconnected", "Connected", "Authenticated", "ConnectionRefused"}

Init ==
    /\ ap_game = "none"
    /\ ap_state = ZeroStore
    /\ ap_is_in_game = 0
    /\ ap_item_queue = << >>
    /\ ap_was_connected = FALSE
    /\ ap_progressive_locations = {}
    /\ ap_initialized = FALSE
    /\ ap_cached_messages = << >>
    /\ ap_save_dir_name = ""
    /\ ap_notification_icons = << >>
    /\ pc = "start"
    /\ elapsed = 0
    /\ inits = 0
    /\ transport = [status |-> "Disconnected", started |-> FALSE, registered |-> FALSE,
                    seed |-> "s1", messages |-> << >>, sent |-> << >>, scouts |-> << >>,
                    story_complete |-> 0]
    /\ engine = [given |-> << >>, victory_calls |-> 0, messages |-> << >>,
                 gamemode |-> "indetermined", gamestate |-> "GS_DEMOSCREEN",
                  selected_ep |-> 0, prev_ep |-> 0]
    /\ disk = [d \in SaveFiles |-> NoFile]
    /\ mem_corrupt = FALSE
    /\ last = [op |-> "none", arg |-> << >>]

(* ------------------------- level state access ------------------------- *)

\* ap_get_level_state with the episode count as the stride.
ap_get_level_state_EpisodeStride(ep, map) == (ep - 1) * ap_episode_count(ap_game) + (map - 1)

\* ap_get_level_state(ep, map): the arena index of the record.
ap_get_level_state(ep, map) == (ep - 1) * ap_map_count(ap_game) + (map - 1)

\* is_loc_checked on a level record: index is among checks[0..check_count-1].
is_loc_checked_in(level_state, index) ==
    \E i \in 0..(level_state.check_count - 1) :
        i < AP_CHECK_MAX /\ level_state.checks[i] = index

is_loc_checked(ep, map, index) ==
    is_loc_checked_in(ap_state.level_states[ap_get_level_state(ep, map)], index)

\* find_location: the rows of the location table that hold loc_id (the first one in
\* episode, map, index order is the one the loops stop at).
RowBefore(a, b) ==
    \/ a.ep < b.ep
    \/ a.ep = b.ep /\ a.map < b.map
    \/ a.ep = b.ep /\ a.map = b.map /\ a.index <= b.index

find_location_rows(loc_id) == { r \in get_location_table(ap_game) : r.id = loc_id }

find_location_found(loc_id) == find_location_rows(loc_id) # {}

find_location(loc_id) ==
    CHOOSE r \in find_location_rows(loc_id) :
        \A o \in find_location_rows(loc_id) : RowBefore(r, o)

(* ------------------------- notification icons ------------------------- *)
(* Positions and velocities are floats in the source; here they are fixed  *)
(* point numbers in hundredths of a unit.                                  *)

AP_NOTIF_SIZE == 30

AP_NOTIF_PADDING == 2

\* The icon f_itemrecv builds; text is the <<ep, map>> whose level name is shown,
\* or << >> for the empty string.
NewNotificationIcon(doom_type, notif_text) ==
    [sprite |-> doom_type, t |-> 0, text |-> notif_text,
     xf |-> 100 * ((AP_NOTIF_SIZE \div 2) + AP_NOTIF_PADDING),
     yf |-> -20000 + 100 * (AP_NOTIF_SIZE \div 2),
     state |-> "PENDING", velx |-> 0, vely |-> 0,
     x |-> (AP_NOTIF_SIZE \div 2) + AP_NOTIF_PADDING,
     y |-> -200 + (AP_NOTIF_SIZE \div 2)]

(* --------------------------- event handlers --------------------------- *)
(* A handler is an operator on the part of the state it may touch,         *)
(*   w = [st, queue, icons, given, corrupt],                               *)
(* so that apdoom_update can run f_itemrecv once per queued item.          *)

World ==
    [st |-> ap_state, queue |-> ap_item_queue, icons |-> ap_notification_icons,
     given |-> engine.given, corrupt |-> mem_corrupt]

item_table_rows(item_id) == { r \in get_item_type_table(ap_game) : r.id = item_id }

\* A write through level_state: inside the arena it changes the record, outside
\* it is a write to memory the arena does not own.
WriteLevel(w, idx, field, key) ==
    IF idx \in DOMAIN w.st.level_states
    THEN IF field = "keys"
         THEN [w EXCEPT !.st.level_states[idx].keys[key] = 1]
         ELSE IF field = "has_map"
         THEN [w EXCEPT !.st.level_states[idx].has_map = 1]
         ELSE IF field = "unlocked"
         THEN [w EXCEPT !.st.level_states[idx].unlocked = 1]
         ELSE [w EXCEPT !.st.level_states[idx].completed = 1]
    ELSE [w EXCEPT !.corrupt = TRUE]

\* A backpack branch that doubles the max_ammo in force instead of the table's.
ItemBackpack_DoublesCurrent(w) ==
    [w EXCEPT !.st.player_state.backpack = 1,
              !.st.player_state.max_ammo =
                  [i \in 0..(ap_ammo_count(ap_game) - 1) |-> w.st.player_state.max_ammo[i] * 2]]

\* The backpack branch without the max_ammo loop.
ItemBackpack_FlagOnly(w) == [w EXCEPT !.st.player_state.backpack = 1]

\* The backpack branch of f_itemrecv: the flag, and max_ammo doubled from the table.
ItemBackpack(w) ==
    [w EXCEPT !.st.player_state.backpack = 1,
              !.st.player_state.max_ammo =
                  [i \in 0..(ap_ammo_count(ap_game) - 1) |-> get_max_ammos(ap_game)[i + 1] * 2]]

\* The flag effects of f_itemrecv, in the order of the source.
ItemEffects(w, item) ==
    LET idx == (item.ep - 1) * ap_map_count(ap_game) + (item.map - 1)
        keys_map == get_keys_map(ap_game)
        weapons_map == get_weapons_map(ap_game)
        w1 == IF item.doom_type \in DOMAIN keys_map
              THEN WriteLevel(w, idx, "keys", keys_map[item.doom_type]) ELSE w
        w2 == IF item.doom_type = get_map_doom_type(ap_game)
              THEN WriteLevel(w1, idx, "has_map", 0) ELSE w1
        w3 == IF item.doom_type = 8 THEN ItemBackpack(w2) ELSE w2
        w4 == IF item.doom_type \in DOMAIN weapons_map
              THEN [w3 EXCEPT !.st.player_state.weapon_owned[weapons_map[item.doom_type]] = 1]
              ELSE w3
        w5 == IF item.doom_type = -1 THEN WriteLevel(w4, idx, "unlocked", 0) ELSE w4
        w6 == IF item.doom_type = -2 THEN WriteLevel(w5, idx, "completed", 0) ELSE w5
    IN  w6

\* notif_text of f_itemrecv: the level of a key, map or unlock item, else none.
ItemNotifText(item) ==
    IF \/ item.doom_type \in DOMAIN get_keys_map(ap_game)
       \/ item.doom_type = get_map_doom_type(ap_game)
       \/ item.doom_type = -1
    THEN <<item.ep, item.map>>
    ELSE << >>

\* The notification part without its "if (!notify_player) return".
ItemNotify_AlwaysNotifies(w, item, notify_player, in_game) ==
    IF in_game = 0 THEN [w EXCEPT !.queue = Append(@, item.id)]
    ELSE LET g == [w EXCEPT !.given = Append(@, <<item.doom_type, item.ep, item.map>>)]
         IN  IF item.doom_type \in ap_heretic_type_sprites
             THEN [g EXCEPT !.icons =
                       Append(@, NewNotificationIcon(item.doom_type, ItemNotifText(item)))]
             ELSE g

\* The part of f_itemrecv after the flag effects: silent, queued, or given.
ItemNotify(w, item, notify_player, in_game) ==
    IF ~notify_player THEN w
    ELSE IF in_game = 0 THEN [w EXCEPT !.queue = Append(@, item.id)]
    ELSE LET g == [w EXCEPT !.given = Append(@, <<item.doom_type, item.ep, item.map>>)]
         IN  IF item.doom_type \in ap_heretic_type_sprites
             THEN [g EXCEPT !.icons =
                       Append(@, NewNotificationIcon(item.doom_type, ItemNotifText(item)))]
             ELSE g

\* f_itemrecv that looks the id up with operator[]: a missing id yields a
\* default-constructed item instead of a return.
ItemRecv_DefaultItem(w, item_id, notify_player, in_game) ==
    LET item == IF item_table_rows(item_id) = {}
                THEN [id |-> item_id, doom_type |-> 0, ep |-> 0, map |-> 0]
                ELSE CHOOSE r \in item_table_rows(item_id) : TRUE
    IN  ItemNotify(ItemEffects(w, item), item, notify_player, in_game)

\* f_itemrecv(item_id, notify_player) as a function of the state it touches.
ItemRecv(w, item_id, notify_player, in_game) ==
    IF item_table_rows(item_id) = {} THEN w
    ELSE LET item == CHOOSE r \in item_table_rows(item_id) : TRUE
         IN  ItemNotify(ItemEffects(w, item), item, notify_player, in_game)

\* The state after a handler that produced w, with the rest left alone.
ApplyWorld(w) ==
    /\ ap_state' = w.st
    /\ ap_item_queue' = w.queue
    /\ ap_notification_icons' = w.icons
    /\ engine' = [engine EXCEPT !.given = w.given]
    /\ mem_corrupt' = w.corrupt

\* The transport calls the registered callbacks once AP_Start has run.
CallbacksLive == transport.registered /\ transport.started

f_itemrecv(item_id, notify_player) ==
    /\ CallbacksLive
    /\ notify_player => Len(ap_item_queue) + Len(engine.given) < MaxQueue
    /\ ApplyWorld(ItemRecv(World, item_id, notify_player, ap_is_in_game))
    /\ last' = [op |-> "f_itemrecv", arg |-> <<item_id, notify_player>>]
    /\ UNCHANGED <<ap_game, ap_is_in_game, ap_was_connected, ap_progressive_locations,
                   ap_initialized, ap_cached_messages, ap_save_dir_name, pc, elapsed,
                   inits, transport, disk>>

\* The append of f_locrecv with the check_count++ left out.
LocAppend_NoIncrement(level_state, index) ==
    IF level_state.check_count < AP_CHECK_MAX
    THEN [level_state EXCEPT !.checks[level_state.check_count] = index]
    ELSE level_state

\* The append of f_locrecv: checks[check_count] = index; check_count++.  A slot at
\* or past AP_CHECK_MAX is outside the array.
LocAppend(level_state, index) ==
    IF level_state.check_count < AP_CHECK_MAX
    THEN [level_state EXCEPT !.checks[level_state.check_count] = index,
                             !.check_count = @ + 1]
    ELSE [level_state EXCEPT !.check_count = @ + 1]

\* f_locrecv without its "already checked" test.
LocRecv_NoDupCheck(level_states, loc_id) ==
    IF ~find_location_found(loc_id) THEN level_states
    ELSE LET r == find_location(loc_id)
             idx == ap_get_level_state(r.ep, r.map)
         IN  IF r.index < 0 THEN level_states
             ELSE [level_states EXCEPT ![idx] = LocAppend(@, r.index)]

\* f_locrecv without its "if (index < 0) return".
LocRecv_NoNegativeTest(level_states, loc_id) ==
    IF ~find_location_found(loc_id) THEN level_states
    ELSE LET r == find_location(loc_id)
             idx == ap_get_level_state(r.ep, r.map)
         IN  IF is_loc_checked_in(level_states[idx], r.index) THEN level_states
             ELSE [level_states EXCEPT ![idx] = LocAppend(@, r.index)]

\* f_locrecv(loc_id) on the level records.
LocRecv(level_states, loc_id) ==
    IF ~find_location_found(loc_id) THEN level_states
    ELSE LET r == find_location(loc_id)
             idx == ap_get_level_state(r.ep, r.map)
         IN  IF is_loc_checked_in(level_states[idx], r.index) THEN level_states
             ELSE IF r.index < 0 THEN level_states
             ELSE [level_states EXCEPT ![idx] = LocAppend(@, r.index)]

\* Whether f_locrecv(loc_id) writes a checks slot outside the array.
LocRecvOverflows(level_states, loc_id) ==
    /\ find_location_found(loc_id)
    /\ LET r == find_location(loc_id)
           idx == ap_get_level_state(r.ep, r.map)
       IN  /\ ~is_loc_checked_in(level_states[idx], r.index)
           /\ r.index >= 0
           /\ level_states[idx].check_count >= AP_CHECK_MAX

f_locrecv(loc_id) ==
    /\ CallbacksLive
    /\ ap_state' = [ap_state EXCEPT !.level_states = LocRecv(@, loc_id)]
    /\ mem_corrupt' = (mem_corrupt \/ LocRecvOverflows(ap_state.level_states, loc_id))
    /\ last' = [op |-> "f_locrecv", arg |-> <<loc_id>>]
    /\ UNCHANGED <<ap_game, ap_is_in_game, ap_item_queue, ap_was_connected,
                   ap_progressive_locations, ap_initialized, ap_cached_messages,
                   ap_save_dir_name, ap_notification_icons, pc, elapsed, inits,
                   transport, engine, disk>>

(* ------------------------- persistence codec -------------------------- *)
(* A JSON value is modelled by its type tag and its integer content, so    *)
(* that Json::Value::isInt() can tell an integer from a boolean or null.   *)

JInt(n) == [t |-> "int", v |-> n]

JBool(n) == [t |-> "bool", v |-> IF n # 0 THEN 1 ELSE 0]

JNull == [t |-> "null", v |-> 0]

\* json[i] of an array: null past its end.
JAt(arr, i) == IF i < Len(arr) THEN arr[i + 1] ELSE JNull

RECURSIVE BitOr(_, _)
\* a | b for non-negative integers.
BitOr(a, b) ==
    IF a = 0 THEN b
    ELSE IF b = 0 THEN a
    ELSE (IF a % 2 = 1 \/ b % 2 = 1 THEN 1 ELSE 0) + 2 * BitOr(a \div 2, b \div 2)

\* json_get_int: the value after the call, given the value before.
json_get_int(json, out_or_default) ==
    IF json.t = "int" THEN json.v ELSE out_or_default

\* json_get_bool_or with "=" in place of "|=".
json_get_bool_or_Overwrites(json, out_or_default) ==
    IF json.t = "int" THEN json.v ELSE out_or_default

\* json_get_bool_or: the value after the call, given the value before.
json_get_bool_or(json, out_or_default) ==
    IF json.t = "int" THEN BitOr(out_or_default, json.v) ELSE out_or_default

\* The elements arr[0..n-1] of a zero-based array as a JSON array of integers.
JIntArray(arr, n) == [k \in 1..n |-> JInt(arr[k - 1])]

RECURSIVE ChecksArray(_, _)
\* The checks loop of serialize_level from slot k on: -1 entries are skipped.
ChecksArray(checks, k) ==
    IF k >= AP_CHECK_MAX THEN << >>
    ELSE IF checks[k] = -1 THEN ChecksArray(checks, k + 1)
    ELSE <<JInt(checks[k])>> \o ChecksArray(checks, k + 1)

\* serialize_level(ep, map) of a level record.
serialize_level(level_state) ==
    [completed |-> JInt(level_state.completed),
     keys0 |-> JInt(level_state.keys[0]),
     keys1 |-> JInt(level_state.keys[1]),
     keys2 |-> JInt(level_state.keys[2]),
     check_count |-> JInt(level_state.check_count),
     has_map |-> JInt(level_state.has_map),
     unlocked |-> JInt(level_state.unlocked),
     special |-> JInt(level_state.special),
     checks |-> ChecksArray(level_state.checks, 0)]

RECURSIVE InventoryArray(_, _, _)
\* The inventory loop of save_state from slot i on: slots of type 9 are skipped.
InventoryArray(inventory, i, n) ==
    IF i >= n THEN << >>
    ELSE IF inventory[i].type = 9 THEN InventoryArray(inventory, i + 1, n)
    ELSE <<[type |-> JInt(inventory[i].type), count |-> JInt(inventory[i].count)]>>
             \o InventoryArray(inventory, i + 1, n)

\* The two orders in which  json["enabled_episodes"][i++] = ap_state.episodes[i]
\* and  json_get_int(json["enabled_episodes"][i++], ap_state.episodes[i])  may
\* evaluate their operands: the episodes[i] operand before or after the i++.
EvalOrders == {"episodes_first", "increment_first"}

\* The enabled_episodes loop of save_state: i advances by two per round; slot i
\* receives a boolean, the slots skipped over are null.  In the increment_first
\* order the value read is episodes[i + 1], and past the array it is garbage.
EnabledEpisodesArray(episodes, n, order, garbage) ==
    LET last_i == IF n % 2 = 1 THEN n - 1 ELSE n - 2
        src(i) == IF order = "episodes_first" THEN i ELSE i + 1
        val(i) == IF src(i) < n THEN episodes[src(i)] ELSE garbage
    IN  [k \in 1..(last_i + 1) |-> IF (k - 1) % 2 = 0 THEN JBool(val(k - 1)) ELSE JNull]

RECURSIVE SortedSeq(_)
\* The elements of a finite set of integers in ascending order (std::set order).
SortedSeq(S) ==
    IF S = {} THEN << >>
    ELSE LET m == CHOOSE x \in S : \A y \in S : x <= y
         IN  <<m>> \o SortedSeq(S \ {m})

\* The document save_state writes.
SaveDoc(st, queue, progressive, order, garbage) ==
    LET g == ap_game
        ps == st.player_state
    IN  [exists |-> TRUE,
         player |->
            [health |-> JInt(ps.health), armor_points |-> JInt(ps.armor_points),
             armor_type |-> JInt(ps.armor_type), backpack |-> JInt(ps.backpack),
             ready_weapon |-> JInt(ps.ready_weapon), kill_count |-> JInt(ps.kill_count),
             item_count |-> JInt(ps.item_count), secret_count |-> JInt(ps.secret_count),
             powers |-> JIntArray(ps.powers, ap_powerup_count(g)),
             weapon_owned |-> JIntArray(ps.weapon_owned, ap_weapon_count(g)),
             ammo |-> JIntArray(ps.ammo, ap_ammo_count(g)),
             inventory |-> InventoryArray(ps.inventory, 0, ap_inventory_count(g))],
         episodes |->
            [i \in 1..ap_episode_count(g) |->
                [j \in 1..ap_map_count(g) |->
                    serialize_level(st.level_states[(i - 1) * ap_map_count(g) + (j - 1)])]],
         item_queue |-> [k \in 1..Len(queue) |-> JInt(queue[k])],
         ep |-> JInt(st.ep),
         enabled_episodes |->
            EnabledEpisodesArray(st.episodes, ap_episode_count(g), order, garbage),
         map |-> JInt(st.map),
         progressive_locations |->
            LET sorted == SortedSeq(progressive)
            IN  [k \in 1..Len(sorted) |-> JInt(sorted[k])],
         victory |-> JInt(st.victory)]

\* json["player"]["inventory"][i]: null members past the end of the array.
InventorySlotAt(arr, i) ==
    IF i < Len(arr) THEN arr[i + 1] ELSE [type |-> JNull, count |-> JNull]

\* json["episodes"][i][j]: null members where the document has no such level.
NullLevelDoc ==
    [completed |-> JNull, keys0 |-> JNull, keys1 |-> JNull, keys2 |-> JNull,
     check_count |-> JNull, has_map |-> JNull, unlocked |-> JNull, special |-> JNull,
     checks |-> << >>]

LevelDocAt(episodes, i, j) ==
    IF i < Len(episodes) /\ j < Len(episodes[i + 1]) THEN episodes[i + 1][j + 1]
    ELSE NullLevelDoc

\* The player section of load_state, with the max_ammo recomputation that follows it.
LoadPlayer(ps, player) ==
    LET g == ap_game
        p1 == [ps EXCEPT
                 !.health = json_get_int(player.health, @),
                 !.armor_points = json_get_int(player.armor_points, @),
                 !.armor_type = json_get_int(player.armor_type, @),
                 !.backpack = json_get_int(player.backpack, @),
                 !.ready_weapon = json_get_int(player.ready_weapon, @),
                 !.kill_count = json_get_int(player.kill_count, @),
                 !.item_count = json_get_int(player.item_count, @),
                 !.secret_count = json_get_int(player.secret_count, @),
                 !.powers = [i \in 0..(ap_powerup_count(g) - 1) |->
                                json_get_int(JAt(player.powers, i), ps.powers[i])],
                 !.weapon_owned = [i \in 0..(ap_weapon_count(g) - 1) |->
                                json_get_bool_or(JAt(player.weapon_owned, i), ps.weapon_owned[i])],
                 !.ammo = [i \in 0..(ap_ammo_count(g) - 1) |->
                                json_get_int(JAt(player.ammo, i), ps.ammo[i])],
                 !.inventory = [i \in 0..(ap_inventory_count(g) - 1) |->
                                [type |-> json_get_int(InventorySlotAt(player.inventory, i).type,
                                                       ps.inventory[i].type),
                                 count |-> json_get_int(InventorySlotAt(player.inventory, i).count,
                                                        ps.inventory[i].count)]]]
    IN  IF p1.backpack # 0
        THEN [p1 EXCEPT !.max_ammo = [i \in 0..(ap_ammo_count(g) - 1) |->
                                         get_max_ammos(g)[i + 1] * (IF p1.backpack # 0 THEN 2 ELSE 1)]]
        ELSE p1

\* The level section of load_state on one level record: the flags are OR-merged,
\* check_count and checks are not read.
LoadLevel(level_state, doc) ==
    [level_state EXCEPT
        !.completed = json_get_bool_or(doc.completed, @),
        !.keys = [k \in 0..2 |->
                     json_get_bool_or(IF k = 0 THEN doc.keys0 ELSE IF k = 1 THEN doc.keys1
                                      ELSE doc.keys2, level_state.keys[k])],
        !.has_map = json_get_bool_or(doc.has_map, @),
        !.unlocked = json_get_bool_or(doc.unlocked, @),
        !.special = json_get_bool_or(doc.special, @)]

RECURSIVE LoadEnabledEpisodes(_, _, _, _, _)
\* The enabled_episodes loop of load_state from i on: the element read is json[i],
\* the flag written is episodes[i] or, in the increment_first order, episodes[i + 1];
\* i advances by two per round.  Yields the flags and whether a write left the array.
LoadEnabledEpisodes(episodes, arr, i, n, order) ==
    IF i >= n THEN [episodes |-> episodes, corrupt |-> FALSE]
    ELSE LET target == IF order = "episodes_first" THEN i ELSE i + 1
             json == JAt(arr, i)
             rest(eps) == LoadEnabledEpisodes(eps, arr, i + 2, n, order)
         IN  IF json.t # "int" THEN rest(episodes)
             ELSE IF target < n
             THEN rest([episodes EXCEPT ![target] = json.v])
             ELSE [rest(episodes) EXCEPT !.corrupt = TRUE]

\* load_state() given the document of the opened file, as a function of
\* l = [st, queue, progressive, corrupt].
LoadDoc(l, doc, order) ==
    LET g == ap_game
        eps == LoadEnabledEpisodes(l.st.episodes, doc.enabled_episodes, 0,
                                   ap_episode_count(g), order)
    IN  [st |-> [l.st EXCEPT
                    !.player_state = LoadPlayer(@, doc.player),
                    !.level_states =
                        [idx \in DOMAIN l.st.level_states |->
                            LoadLevel(l.st.level_states[idx],
                                      LevelDocAt(doc.episodes, idx \div ap_map_count(g),
                                                 idx % ap_map_count(g)))],
                    !.ep = json_get_int(doc.ep, @),
                    !.episodes = eps.episodes,
                    !.map = json_get_int(doc.map, @),
                    !.victory = json_get_bool_or(doc.victory, @)],
         queue |-> l.queue \o [k \in 1..Len(doc.item_queue) |-> doc.item_queue[k].v],
         progressive |-> l.progressive \cup
                            { doc.progressive_locations[k].v :
                                k \in 1..Len(doc.progressive_locations) },
         corrupt |-> l.corrupt \/ eps.corrupt]

\* load_state(): a missing file leaves everything as it is.
LoadState(l, doc, order) == IF ~doc.exists THEN l ELSE LoadDoc(l, doc, order)

\* save_state(): the file of the current save directory is replaced.  A file
\* outside the directories init made may fail to open, and then nothing is
\* written.
save_state(order, garbage) ==
    \/ disk' = [disk EXCEPT ![ap_save_dir_name] =
                   SaveDoc(ap_state, ap_item_queue, ap_progressive_locations, order, garbage)]
    \/ ap_save_dir_name \notin SaveDirs /\ disk' = disk

(* ------------------------------ the API ------------------------------- *)

\* Variables apdoom_init and the handshake own.
sessionVars == <<ap_game, ap_was_connected, ap_initialized, ap_save_dir_name, pc, elapsed, inits>>

\* init has returned: the engine may call the rest of the API.
Returned == pc \in {"done", "failed"}

\* Most location submissions recorded in transport.sent.
MaxSent == 2

\* apdoom_shutdown without the test of ap_was_connected.
apdoom_shutdown_Unguarded(order, garbage) ==
    /\ Returned
    /\ save_state(order, garbage)
    /\ pc' = "exited"
    /\ last' = [op |-> "apdoom_shutdown", arg |-> << >>]
    /\ UNCHANGED <<ap_game, ap_was_connected, ap_initialized, ap_save_dir_name, elapsed,
                   inits, ap_state, ap_is_in_game, ap_item_queue,
                   ap_progressive_locations, ap_cached_messages, ap_notification_icons,
                   transport, engine, mem_corrupt>>

\* apdoom_shutdown(): persists only a session that was authenticated once.  It runs
\* as the program exits: nothing of the session runs after it.
apdoom_shutdown(order, garbage) ==
    /\ Returned
    /\ IF ap_was_connected THEN save_state(order, garbage) ELSE disk' = disk
    /\ pc' = "exited"
    /\ last' = [op |-> "apdoom_shutdown", arg |-> << >>]
    /\ UNCHANGED <<ap_game, ap_was_connected, ap_initialized, ap_save_dir_name, elapsed,
                   inits, ap_state, ap_is_in_game, ap_item_queue,
                   ap_progressive_locations, ap_cached_messages, ap_notification_icons,
                   transport, engine, mem_corrupt>>

\* apdoom_save_state(): the same guard as apdoom_shutdown.
apdoom_save_state(order, garbage) ==
    /\ Returned
    /\ IF ap_was_connected THEN save_state(order, garbage) ELSE disk' = disk
    /\ last' = [op |-> "apdoom_save_state", arg |-> << >>]
    /\ UNCHANGED <<sessionVars, ap_state, ap_is_in_game, ap_item_queue,
                   ap_progressive_locations, ap_cached_messages, ap_notification_icons,
                   transport, engine, mem_corrupt>>

\* The three lookups of apdoom_check_location: the rows for (ep, map, index).
check_location_rows(ep, map, index) ==
    { r \in get_location_table(ap_game) : r.ep = ep /\ r.map = map /\ r.index = index }

\* apdoom_check_location that returns at "Location already checked".
CheckLocationSends_SkipChecked(ep, map, index) ==
    IF check_location_rows(ep, map, index) = {} THEN << >>
    ELSE IF index >= 0 /\ is_loc_checked(ep, map, index) THEN << >>
    ELSE <<(CHOOSE r \in check_location_rows(ep, map, index) : TRUE).id>>

\* What apdoom_check_location(ep, map, index) adds to the ids sent: the id of the
\* location if the catalog has it, whether or not it is already checked.
CheckLocationSends(ep, map, index) ==
    IF check_location_rows(ep, map, index) = {} THEN << >>
    ELSE <<(CHOOSE r \in check_location_rows(ep, map, index) : TRUE).id>>

apdoom_check_location(ep, map, index) ==
    /\ pc = "done"
    /\ Len(transport.sent) < MaxSent
    /\ transport' = [transport EXCEPT !.sent = @ \o CheckLocationSends(ep, map, index)]
    /\ last' = [op |-> "apdoom_check_location", arg |-> <<ep, map, index>>]
    /\ UNCHANGED <<sessionVars, ap_state, ap_is_in_game, ap_item_queue,
                   ap_progressive_locations, ap_cached_messages, ap_notification_icons,
                   engine, disk, mem_corrupt>>

\* apdoom_complete_level that sets the flag only when the completion location
\* is sent.
apdoom_complete_level_NeedsLocation(ep, map) ==
    /\ pc = "done"
    /\ Len(transport.sent) < MaxSent
    /\ ap_state' = IF CheckLocationSends(ep, map, -1) = << >> THEN ap_state
                   ELSE [ap_state EXCEPT !.level_states[ap_get_level_state(ep, map)].completed = 1]
    /\ transport' = [transport EXCEPT !.sent = @ \o CheckLocationSends(ep, map, -1)]
    /\ last' = [op |-> "apdoom_complete_level", arg |-> <<ep, map>>]
    /\ UNCHANGED <<sessionVars, ap_is_in_game, ap_item_queue, ap_progressive_locations,
                   ap_cached_messages, ap_notification_icons, engine, disk, mem_corrupt>>

\* apdoom_complete_level(ep, map): the flag, then the -1 location is submitted.
apdoom_complete_level(ep, map) ==
    /\ pc = "done"
    /\ Len(transport.sent) < MaxSent
    /\ ap_state' = [ap_state EXCEPT !.level_states[ap_get_level_state(ep, map)].completed = 1]
    /\ transport' = [transport EXCEPT !.sent = @ \o CheckLocationSends(ep, map, -1)]
    /\ last' = [op |-> "apdoom_complete_level", arg |-> <<ep, map>>]
    /\ UNCHANGED <<sessionVars, ap_is_in_game, ap_item_queue, ap_progressive_locations,
                   ap_cached_messages, ap_notification_icons, engine, disk, mem_corrupt>>

\* The scan without the test of ap_state.episodes[ep]: every episode counts.
VictoryScan_AllEpisodes(st) ==
    \A ep \in 0..(ap_episode_count(ap_game) - 1) :
        \A map \in 0..(ap_map_count(ap_game) - 1) :
            st.level_states[ap_get_level_state(ep + 1, map + 1)].completed # 0

\* The scan of apdoom_check_victory: no enabled episode has an uncompleted map.
VictoryScan(st) ==
    \A ep \in 0..(ap_episode_count(ap_game) - 1) :
        st.episodes[ep] # 0 =>
            \A map \in 0..(ap_map_count(ap_game) - 1) :
                st.level_states[ap_get_level_state(ep + 1, map + 1)].completed # 0

\* apdoom_check_victory without the return on a flag already set.
apdoom_check_victory_NoEarlyReturn ==
    /\ pc = "done"
    /\ IF VictoryScan(ap_state)
       THEN /\ ap_state' = [ap_state EXCEPT !.victory = 1]
            /\ transport' = [transport EXCEPT !.story_complete = @ + 1]
            /\ engine' = [engine EXCEPT !.victory_calls = @ + 1]
       ELSE UNCHANGED <<ap_state, transport, engine>>
    /\ last' = [op |-> "apdoom_check_victory", arg |-> << >>]
    /\ UNCHANGED <<sessionVars, ap_is_in_game, ap_item_queue, ap_progressive_locations,
                   ap_cached_messages, ap_notification_icons, disk, mem_corrupt>>

apdoom_check_victory ==
    /\ pc = "done"
    /\ IF ap_state.victory = 0 /\ VictoryScan(ap_state)
       THEN /\ ap_state' = [ap_state EXCEPT !.victory = 1]
            /\ transport' = [transport EXCEPT !.story_complete = @ + 1]
            /\ engine' = [engine EXCEPT !.victory_calls = @ + 1]
       ELSE UNCHANGED <<ap_state, transport, engine>>
    /\ last' = [op |-> "apdoom_check_victory", arg |-> << >>]
    /\ UNCHANGED <<sessionVars, ap_is_in_game, ap_item_queue, ap_progressive_locations,
                   ap_cached_messages, ap_notification_icons, disk, mem_corrupt>>

(* ---------------------------- apdoom_update --------------------------- *)

\* Resting ticks after which a dropped icon starts to hide: "t > 350".
NotifRestTicks == 350

\* C integer conversion and division: toward zero.
TruncDiv(a, b) == IF a >= 0 THEN a \div b ELSE -((-a) \div b)

\* A Dropping step that starts to hide at the first touch of the resting height.
IconDrop_HidesAtOnce(ic, previous_y) ==
    LET v1 == IF ic.vely + 15 > 800 THEN 800 ELSE ic.vely + 15
        y1 == ic.yf + v1
        rest_y == previous_y - 100 * AP_NOTIF_SIZE - 100 * AP_NOTIF_PADDING
    IN  IF y1 >= rest_y
        THEN [ic EXCEPT !.yf = rest_y, !.vely = TruncDiv(-3 * v1, 10), !.t = @ + 1,
                        !.state = "HIDING"]
        ELSE [ic EXCEPT !.yf = y1, !.vely = v1]

\* The Dropping step of one icon, given the resting height of the icon before it.
IconDrop(ic, previous_y) ==
    LET v1 == IF ic.vely + 15 > 800 THEN 800 ELSE ic.vely + 15
        y1 == ic.yf + v1
        rest_y == previous_y - 100 * AP_NOTIF_SIZE - 100 * AP_NOTIF_PADDING
    IN  IF y1 >= rest_y
        THEN [ic EXCEPT !.yf = rest_y, !.vely = TruncDiv(-3 * v1, 10), !.t = @ + 1,
                        !.state = IF ic.t + 1 > NotifRestTicks THEN "HIDING" ELSE @]
        ELSE [ic EXCEPT !.yf = y1, !.vely = v1]

\* A Hiding step that leaves the icon where it is.
IconHide_Stays(ic) == ic

\* The Hiding step of one icon.
IconHide(ic) == [ic EXCEPT !.vely = @ - 14, !.xf = @ + (ic.vely - 14)]

RECURSIVE UpdateIcons(_, _)
\* The notification loop of apdoom_update from the head of icons on.
UpdateIcons(icons, previous_y) ==
    IF icons = << >> THEN << >>
    ELSE LET ic == Head(icons)
             s1 == IF ic.state = "PENDING" /\ previous_y > -16000
                   THEN [ic EXCEPT !.state = "DROPPING"] ELSE ic
             s2 == IF s1.state = "DROPPING" THEN IconDrop(s1, previous_y) ELSE s1
             s3 == IF s2.state = "HIDING" THEN IconHide(s2) ELSE s2
         IN  IF s1.state = "PENDING"
             THEN <<s1>> \o UpdateIcons(Tail(icons), previous_y)
             ELSE IF s2.state = "HIDING" /\ s3.xf < 100 * TruncDiv(-AP_NOTIF_SIZE, 2)
             THEN UpdateIcons(Tail(icons), previous_y)
             ELSE <<[s3 EXCEPT !.x = TruncDiv(s3.xf, 100), !.y = TruncDiv(s3.yf, 100)]>>
                      \o UpdateIcons(Tail(icons), s3.yf)

RECURSIVE DrainQueue_Lifo(_, _)
\* The dequeue loop taking the back of the queue instead of the front.
DrainQueue_Lifo(w, in_game) ==
    IF w.queue = << >> THEN w
    ELSE DrainQueue_Lifo(ItemRecv([w EXCEPT !.queue = SubSeq(@, 1, Len(@) - 1)],
                                  w.queue[Len(w.queue)], TRUE, in_game),
                         in_game)

\* The dequeue with an "if" in place of the "while": the front item only.
DrainQueue_FrontOnly(w, in_game) ==
    IF w.queue = << >> THEN w
    ELSE ItemRecv([w EXCEPT !.queue = Tail(@)], Head(w.queue), TRUE, in_game)

RECURSIVE DrainQueue(_, _)
\* The dequeue loop of apdoom_update: front, erase, f_itemrecv(item_id, true).
DrainQueue(w, in_game) ==
    IF w.queue = << >> THEN w
    ELSE DrainQueue(ItemRecv([w EXCEPT !.queue = Tail(@)], Head(w.queue), TRUE, in_game),
                    in_game)

\* A message part that dispatches the pending messages before the cached ones.
UpdateMessages_PendingFirst(m) ==
    IF m.initialized
    THEN [m EXCEPT !.dispatched = @ \o m.pending \o m.cached, !.pending = << >>,
                   !.cached = << >>]
    ELSE [m EXCEPT !.cached = @ \o m.pending, !.pending = << >>]

\* The message part of apdoom_update: cached messages first, then the pending ones,
\* dispatched if the session is initialized and cached otherwise.
UpdateMessages(m) ==
    LET m1 == IF m.initialized /\ m.cached # << >>
              THEN [m EXCEPT !.dispatched = @ \o m.cached, !.cached = << >>] ELSE m
    IN  IF m.initialized
        THEN [m1 EXCEPT !.dispatched = @ \o m.pending, !.pending = << >>]
        ELSE [m1 EXCEPT !.cached = @ \o m.pending, !.pending = << >>]

\* The body of apdoom_update(), shared by the engine's call and the scout loop.
UpdateBody ==
    LET m == UpdateMessages([initialized |-> ap_initialized, cached |-> ap_cached_messages,
                             pending |-> transport.messages, dispatched |-> engine.messages])
    IN  \E w \in {IF ap_is_in_game # 0 THEN DrainQueue(World, ap_is_in_game) ELSE World} :
            /\ ap_cached_messages' = m.cached
            /\ transport' = [transport EXCEPT !.messages = m.pending]
            /\ ap_state' = w.st
            /\ ap_item_queue' = w.queue
            /\ engine' = [engine EXCEPT !.given = w.given, !.messages = m.dispatched]
            /\ mem_corrupt' = w.corrupt
            /\ ap_notification_icons' = UpdateIcons(w.icons, 200)

\* apdoom_update() called by the engine, once per tick, after init returned success.
apdoom_update ==
    /\ pc = "done"
    /\ UpdateBody
    /\ last' = [op |-> "apdoom_update", arg |-> << >>]
    /\ UNCHANGED <<sessionVars, ap_is_in_game, ap_progressive_locations, disk>>

(* ----------------------------- apdoom_init ---------------------------- *)

\* The characters of a save directory name, as character codes.
SaveDirChars(dir) ==
    IF dir = "AP_s1_41" THEN <<65, 80, 95, 115, 49, 95, 52, 49>>
    ELSE IF dir = "AP_s2_41" THEN <<65, 80, 95, 115, 50, 95, 52, 49>>
    ELSE << >>

\* Width in bits kept of the hash and of the generator state (64 and 32 in the
\* source; the arithmetic here stays below 2^31).
HashBits == 16

Pow2(n) == IF n = 0 THEN 1 ELSE 2 ^ n

RECURSIVE hash_seed_from(_, _)
\* hash_seed: hash = hash * 33 + c over the characters, from hash 5381.
hash_seed_from(str, hash) ==
    IF str = << >> THEN hash
    ELSE hash_seed_from(Tail(str), (hash * 33 + Head(str)) % Pow2(HashBits))

hash_seed(str) == hash_seed_from(str, 5381)

\* The k-th state of the generator behind srand(seed), rand(): a linear
\* congruential generator stands for the C library's.
RECURSIVE RandState(_, _)
RandState(seed, k) ==
    IF k = 0 THEN seed % Pow2(HashBits)
    ELSE (RandState(seed, k - 1) * 75 + 74) % Pow2(HashBits)

\* rand() % 2 of the k-th call after srand(seed), k = 1, 2, ...
RandBit(seed, k) == (RandState(seed, k) \div 256) % 2

\* A flip step that seeds the generator from the difficulty of the slot as well.
FlipLevels_SeedFromSlot(st, dir) ==
    IF st.flip_levels = 1
    THEN [st EXCEPT !.level_states = [idx \in DOMAIN @ |-> [@[idx] EXCEPT !.flipped = 1]]]
    ELSE IF st.flip_levels = 2
    THEN [st EXCEPT !.level_states =
             [idx \in DOMAIN @ |->
                 [@[idx] EXCEPT !.flipped =
                     RandBit(hash_seed(SaveDirChars(dir)) + st.difficulty, idx + 1)]]]
    ELSE st

\* A flip step whose "always" mode stops after the first episode.
FlipLevels_FirstEpisodeOnly(st, dir) ==
    IF st.flip_levels = 1
    THEN [st EXCEPT !.level_states =
             [idx \in DOMAIN @ |->
                 [@[idx] EXCEPT !.flipped = IF idx < ap_map_count(ap_game) THEN 1 ELSE @]]]
    ELSE IF st.flip_levels = 2
    THEN [st EXCEPT !.level_states =
             [idx \in DOMAIN @ |->
                 [@[idx] EXCEPT !.flipped = RandBit(hash_seed(SaveDirChars(dir)), idx + 1)]]]
    ELSE st

\* The flip step of apdoom_init on the level records.
FlipLevels(st, dir) ==
    IF st.flip_levels = 1
    THEN [st EXCEPT !.level_states = [idx \in DOMAIN @ |-> [@[idx] EXCEPT !.flipped = 1]]]
    ELSE IF st.flip_levels = 2
    THEN [st EXCEPT !.level_states =
             [idx \in DOMAIN @ |->
                 [@[idx] EXCEPT !.flipped = RandBit(hash_seed(SaveDirChars(dir)), idx + 1)]]]
    ELSE st

\* A default step that enables episode 1 whatever is enabled already.
DefaultEpisode_Always(st) == [st EXCEPT !.episodes[0] = 1]

\* The default of apdoom_init: episode 1 is enabled if no episode is.
DefaultEpisode(st) ==
    IF \A i \in DOMAIN st.episodes : st.episodes[i] = 0
    THEN [st EXCEPT !.episodes[0] = 1]
    ELSE st

\* A scouting list that does not skip the episodes that are not enabled.
LocationScouts_AllEpisodes(st) ==
    { r.id : r \in { rr \in get_location_table(ap_game) : rr.index # -1 } }

\* The ids of the scouting request: locations of enabled episodes, index -1 left out.
LocationScouts(st) ==
    { r.id : r \in { rr \in get_location_table(ap_game) :
                        st.episodes[rr.ep - 1] # 0 /\ rr.index # -1 } }

\* apdoom_init that sets up and starts the transport before it resolves the title.
apdoom_init_StartsFirst(title) ==
    /\ pc \in {"start", "failed"}
    /\ inits < MaxInits
    /\ inits' = inits + 1
    /\ elapsed' = 0
    /\ transport' = [transport EXCEPT !.registered = TRUE, !.started = TRUE,
                                      !.status = "Disconnected"]
    /\ IF TitleGame(title) = "none"
       THEN /\ ap_state' = ZeroStore
            /\ pc' = "failed"
            /\ UNCHANGED ap_game
       ELSE /\ ap_game' = TitleGame(title)
            /\ ap_state' = FreshStore(TitleGame(title))
            /\ pc' = "connect"
    /\ last' = [op |-> "apdoom_init", arg |-> <<title>>]
    /\ UNCHANGED <<ap_is_in_game, ap_item_queue, ap_was_connected, ap_progressive_locations,
                   ap_initialized, ap_cached_messages, ap_save_dir_name,
                   ap_notification_icons, engine, disk, mem_corrupt>>

\* apdoom_init up to AP_Start(): the store is zeroed, the game resolved, the arrays
\* allocated and the default loadout set, the callbacks registered, the connection
\* started.  An unsupported title returns 0 right after the memset.
apdoom_init(title) ==
    /\ pc \in {"start", "failed"}
    /\ inits < MaxInits
    /\ inits' = inits + 1
    /\ elapsed' = 0
    /\ IF TitleGame(title) = "none"
       THEN /\ ap_state' = ZeroStore
            /\ pc' = "failed"
            /\ UNCHANGED <<ap_game, transport>>
       ELSE /\ ap_game' = TitleGame(title)
            /\ ap_state' = FreshStore(TitleGame(title))
            /\ transport' = [transport EXCEPT !.registered = TRUE, !.started = TRUE,
                                              !.status = "Disconnected"]
            /\ pc' = "connect"
    /\ last' = [op |-> "apdoom_init", arg |-> <<title>>]
    /\ UNCHANGED <<ap_is_in_game, ap_item_queue, ap_was_connected, ap_progressive_locations,
                   ap_initialized, ap_cached_messages, ap_save_dir_name,
                   ap_notification_icons, engine, disk, mem_corrupt>>

\* A connect loop in which a refused connection is waited on like any other
\* status short of Authenticated.
ConnectOutcome_RefusedWaits(status, t) ==
    IF status = "Authenticated" THEN "proceed"
    ELSE IF t + 1 > Deadline THEN "timeout"
    ELSE "sleep"

\* A connect loop without the deadline test after the sleep.
ConnectOutcome_NoDeadline(status, t) ==
    IF status = "Authenticated" THEN "proceed"
    ELSE IF status = "ConnectionRefused" THEN "refused"
    ELSE "sleep"

\* What one round of the connect loop does, given the status polled and the
\* rounds slept so far: the switch, then the sleep and the deadline test.
ConnectOutcome(status, t) ==
    IF status = "Authenticated" THEN "proceed"
    ELSE IF status = "ConnectionRefused" THEN "refused"
    ELSE IF t + 1 > Deadline THEN "timeout"
    ELSE "sleep"

\* One round of the connect loop.  Authenticated: the save directory is named, the
\* save loaded, the default episode and the flips applied, and either the scouting
\* request is sent or init returns 1.  ConnectionRefused: init returns 0.  Otherwise
\* the thread sleeps 100 ms and init returns 0 once the deadline has passed.
ConnectPoll(order) ==
    /\ pc = "connect"
    /\ IF ConnectOutcome(transport.status, elapsed) = "proceed"
       THEN LET dir == SaveDirName(transport.seed)
                l == LoadState([st |-> ap_state, queue |-> ap_item_queue,
                                progressive |-> ap_progressive_locations,
                                corrupt |-> mem_corrupt], disk[dir], order)
                st == FlipLevels(DefaultEpisode(l.st), dir)
            IN  /\ ap_was_connected' = TRUE
                /\ ap_save_dir_name' = dir
                /\ ap_state' = st
                /\ ap_item_queue' = l.queue
                /\ ap_progressive_locations' = l.progressive
                /\ mem_corrupt' = l.corrupt
                /\ elapsed' = 0
                /\ IF l.progressive = {}
                   THEN /\ transport' = [transport EXCEPT !.scouts = Append(@, LocationScouts(st))]
                        /\ pc' = "scout"
                        /\ UNCHANGED ap_initialized
                   ELSE /\ ap_initialized' = TRUE
                        /\ pc' = "done"
                        /\ UNCHANGED transport
                /\ last' = [op |-> "ConnectPoll", arg |-> <<"Authenticated">>]
       ELSE /\ IF ConnectOutcome(transport.status, elapsed) = "refused"
               THEN /\ pc' = "failed"
                    /\ elapsed' = elapsed
                    /\ last' = [op |-> "ConnectPoll", arg |-> <<"ConnectionRefused">>]
               ELSE /\ elapsed' = elapsed + 1
                    /\ pc' = IF ConnectOutcome(transport.status, elapsed) = "timeout"
                             THEN "failed" ELSE "connect"
                    /\ last' = [op |-> "ConnectPoll", arg |-> <<"sleep">>]
            /\ UNCHANGED <<ap_was_connected, ap_save_dir_name, ap_state, ap_item_queue,
                           ap_progressive_locations, mem_corrupt, ap_initialized, transport>>
    /\ UNCHANGED <<ap_game, inits, ap_is_in_game, ap_cached_messages,
                   ap_notification_icons, engine, disk>>

\* A scout loop that gives up waiting at the deadline and lets init succeed.
ScoutPoll_SucceedsAtDeadline ==
    /\ pc = "scout"
    /\ IF ap_progressive_locations # {}
       THEN /\ ap_initialized' = TRUE
            /\ pc' = "done"
            /\ UNCHANGED <<elapsed, ap_cached_messages, transport, ap_state, ap_item_queue,
                           engine, mem_corrupt, ap_notification_icons>>
       ELSE /\ UpdateBody
            /\ elapsed' = elapsed + 1
            /\ pc' = IF elapsed + 1 > Deadline THEN "done" ELSE "scout"
            /\ ap_initialized' = (elapsed + 1 > Deadline)
    /\ last' = [op |-> "ScoutPoll", arg |-> << >>]
    /\ UNCHANGED <<ap_game, ap_was_connected, ap_save_dir_name, inits, ap_is_in_game,
                   ap_progressive_locations, disk>>

\* One round of the scout loop: with a progressive location recorded init returns
\* 1; otherwise apdoom_update runs, the thread sleeps 100 ms, and init returns 0
\* once the deadline has passed.
ScoutPoll ==
    /\ pc = "scout"
    /\ IF ap_progressive_locations # {}
       THEN /\ ap_initialized' = TRUE
            /\ pc' = "done"
            /\ UNCHANGED <<elapsed, ap_cached_messages, transport, ap_state, ap_item_queue,
                           engine, mem_corrupt, ap_notification_icons>>
       ELSE /\ UpdateBody
            /\ elapsed' = elapsed + 1
            /\ pc' = IF elapsed + 1 > Deadline THEN "failed" ELSE "scout"
            /\ UNCHANGED ap_initialized
    /\ last' = [op |-> "ScoutPoll", arg |-> << >>]
    /\ UNCHANGED <<ap_game, ap_was_connected, ap_save_dir_name, inits, ap_is_in_game,
                   ap_progressive_locations, disk>>

(* ------------------ slot data and scout callbacks --------------------- *)

\* f_locinfo(loc_infos): loc_infos is a set of <<location, flags>> pairs.
f_locinfo(loc_infos) ==
    /\ CallbacksLive
    /\ ap_progressive_locations' =
           ap_progressive_locations \cup { li[1] : li \in { x \in loc_infos : x[2] % 2 = 1 } }
    /\ last' = [op |-> "f_locinfo", arg |-> <<loc_infos>>]
    /\ UNCHANGED <<sessionVars, ap_state, ap_is_in_game, ap_item_queue, ap_cached_messages,
                   ap_notification_icons, transport, engine, disk, mem_corrupt>>

\* Slot callbacks of which f_flip_levels applies the "always" mode at once.
f_slot_int_AppliesFlip(name, value) ==
    /\ CallbacksLive
    /\ ap_state' =
           CASE name = "difficulty"      -> [ap_state EXCEPT !.difficulty = value]
             [] name = "random_monsters" -> [ap_state EXCEPT !.random_monsters = value]
             [] name = "random_pickups"  -> [ap_state EXCEPT !.random_items = value]
             [] name = "flip_levels"     ->
                    [ap_state EXCEPT !.flip_levels = value,
                                     !.level_states =
                                         [idx \in DOMAIN @ |->
                                             [@[idx] EXCEPT !.flipped =
                                                 IF value = 1 THEN 1 ELSE @]]]
             [] OTHER                    -> [ap_state EXCEPT !.two_ways_keydoors = value]
    /\ last' = [op |-> "f_slot_int", arg |-> <<name, value>>]
    /\ UNCHANGED <<sessionVars, ap_is_in_game, ap_item_queue, ap_progressive_locations,
                   ap_cached_messages, ap_notification_icons, transport, engine, disk,
                   mem_corrupt>>

\* f_difficulty, f_random_monsters, f_random_items, f_flip_levels and
\* f_two_ways_keydoors: the value is stored in the field of that name.
f_slot_int(name, value) ==
    /\ CallbacksLive
    /\ ap_state' =
           CASE name = "difficulty"      -> [ap_state EXCEPT !.difficulty = value]
             [] name = "random_monsters" -> [ap_state EXCEPT !.random_monsters = value]
             [] name = "random_pickups"  -> [ap_state EXCEPT !.random_items = value]
             [] name = "flip_levels"     -> [ap_state EXCEPT !.flip_levels = value]
             [] OTHER                    -> [ap_state EXCEPT !.two_ways_keydoors = value]
    /\ last' = [op |-> "f_slot_int", arg |-> <<name, value>>]
    /\ UNCHANGED <<sessionVars, ap_is_in_game, ap_item_queue, ap_progressive_locations,
                   ap_cached_messages, ap_notification_icons, transport, engine, disk,
                   mem_corrupt>>

\* f_episode1 .. f_episode4: ap_state.episodes[n - 1] = ep, whatever the number of
\* episodes allocated.
f_episode(n, ep) ==
    /\ CallbacksLive
    /\ IF n - 1 \in DOMAIN ap_state.episodes
       THEN /\ ap_state' = [ap_state EXCEPT !.episodes[n - 1] = ep]
            /\ UNCHANGED mem_corrupt
       ELSE /\ mem_corrupt' = TRUE
            /\ UNCHANGED ap_state
    /\ last' = [op |-> "f_episode", arg |-> <<n, ep>>]
    /\ UNCHANGED <<sessionVars, ap_is_in_game, ap_item_queue, ap_progressive_locations,
                   ap_cached_messages, ap_notification_icons, transport, engine, disk>>

(* ------------------------- transport and engine ----------------------- *)

\* The connection status changes; the room seed is known once authenticated.
TransportStatus(status, seed) ==
    /\ transport.started
    /\ transport.status # status
    /\ transport' = [transport EXCEPT !.status = status,
                                      !.seed = IF status = "Authenticated" THEN seed ELSE @]
    /\ last' = [op |-> "TransportStatus", arg |-> <<status>>]
    /\ UNCHANGED <<sessionVars, ap_state, ap_is_in_game, ap_item_queue,
                   ap_progressive_locations, ap_cached_messages, ap_notification_icons,
                   engine, disk, mem_corrupt>>

\* Most messages pending in the transport.
MaxMessages == 2

\* A message arrives in the transport's queue.
TransportMessage(msg) ==
    /\ transport.started
    /\ Len(transport.messages) < MaxMessages
    /\ Len(engine.messages) + Len(ap_cached_messages) < MaxMessages
    /\ transport' = [transport EXCEPT !.messages = Append(@, msg)]
    /\ last' = [op |-> "TransportMessage", arg |-> <<msg>>]
    /\ UNCHANGED <<sessionVars, ap_state, ap_is_in_game, ap_item_queue,
                   ap_progressive_locations, ap_cached_messages, ap_notification_icons,
                   engine, disk, mem_corrupt>>

\* The engine enters or leaves a level: it sets ap_is_in_game.
EngineSetInGame(value) ==
    /\ pc = "done"
    /\ ap_is_in_game # value
    /\ ap_is_in_game' = value
    /\ last' = [op |-> "EngineSetInGame", arg |-> <<value>>]
    /\ UNCHANGED <<sessionVars, ap_state, ap_item_queue, ap_progressive_locations,
                   ap_cached_messages, ap_notification_icons, transport, engine, disk,
                   mem_corrupt>>

\* The engine keeps the player's inventory in the store: it writes a slot.
EngineSetInventory(i, type, count) ==
    /\ pc = "done"
    /\ i \in DOMAIN ap_state.player_state.inventory
    /\ ap_state.player_state.inventory[i] # [type |-> type, count |-> count]
    /\ ap_state' = [ap_state EXCEPT !.player_state.inventory[i] =
                                        [type |-> type, count |-> count]]
    /\ last' = [op |-> "EngineSetInventory", arg |-> <<i, type, count>>]
    /\ UNCHANGED <<sessionVars, ap_is_in_game, ap_item_queue, ap_progressive_locations,
                   ap_cached_messages, ap_notification_icons, transport, engine, disk,
                   mem_corrupt>>

\* The process ends after apdoom_shutdown and the program is started again: every
\* global is back at its initial value, the files stay.
ProcessRestart ==
    /\ pc = "exited"
    /\ inits < MaxInits
    /\ ap_game' = "none"
    /\ ap_state' = ZeroStore
    /\ ap_is_in_game' = 0
    /\ ap_item_queue' = << >>
    /\ ap_was_connected' = FALSE
    /\ ap_progressive_locations' = {}
    /\ ap_initialized' = FALSE
    /\ ap_cached_messages' = << >>
    /\ ap_save_dir_name' = ""
    /\ ap_notification_icons' = << >>
    /\ pc' = "start"
    /\ elapsed' = 0
    /\ transport' = [status |-> "Disconnected", started |-> FALSE, registered |-> FALSE,
                     seed |-> "s1", messages |-> << >>, sent |-> << >>, scouts |-> << >>,
                     story_complete |-> 0]
    /\ engine' = [given |-> << >>, victory_calls |-> 0, messages |-> << >>,
                  gamemode |-> "indetermined", gamestate |-> "GS_DEMOSCREEN",
                  selected_ep |-> 0, prev_ep |-> 0]
    /\ mem_corrupt' = FALSE
    /\ last' = [op |-> "ProcessRestart", arg |-> << >>]
    /\ UNCHANGED <<inits, disk>>

(* --------------------------- specifications --------------------------- *)

\* The scout reply of a server: one location flagged as progression, one not.
ScoutReply == { <<LocId(ap_game, 1, 1, 0), 1>>, <<LocId(ap_game, 1, 1, 1), 0>> }

\* A process brings its session up: one init, the server authenticates and
\* answers the scout; a poll that comes too early sleeps and may time out.
Boot(title) ==
    \/ pc = "start" /\ apdoom_init(title)
    \/ pc = "connect" /\ TransportStatus("Authenticated", "s1")
    \/ ConnectPoll("episodes_first")
    \/ pc = "scout" /\ f_locinfo(ScoutReply)
    \/ ScoutPoll

\* Location ids delivered: three of level (1,1), among them its completion
\* location, and one no table holds.
LocInputs ==
    { LocId(ap_game, 1, 1, 0), LocId(ap_game, 1, 1, 1), LocId(ap_game, 1, 1, -1), UnknownId }

\* A session of DOOM 1993 with location events, an item event, submissions,
\* completions and updates.
NextLoc ==
    \/ Boot("DOOM 1993")
    \/ \E loc_id \in LocInputs : pc = "done" /\ f_locrecv(loc_id)
    \/ pc = "done" /\ f_itemrecv(ItemId(ap_game, 6), FALSE)
    \/ \E k \in {<<1, 1, 0>>, <<1, 1, -1>>, <<2, 1, -1>>, <<3, 1, 0>>} :
           apdoom_check_location(k[1], k[2], k[3])
    \/ apdoom_complete_level(2, 1)
    \/ apdoom_update

SpecLoc == Init /\ [][NextLoc]_vars

\* Sessions of DOOM 1993 that end in apdoom_shutdown and are started again, so
\* that what one session saved the next one loads; in between location events,
\* an item event, a submission, a completion and updates.
NextStore ==
    \/ Boot("DOOM 1993")
    \/ \E loc_id \in LocInputs : pc = "done" /\ f_locrecv(loc_id)
    \/ pc = "done" /\ f_itemrecv(ItemId(ap_game, 6), FALSE)
    \/ apdoom_check_location(1, 1, 0)
    \/ apdoom_complete_level(2, 1)
    \/ apdoom_update
    \/ apdoom_shutdown("episodes_first", 0)
    \/ ProcessRestart

SpecStore == Init /\ [][NextStore]_vars

\* Item ids delivered: one without any flag effect, a level unlock, and one no
\* table holds.
ItemInputs == { ItemId(ap_game, 8), ItemId(ap_game, 5), UnknownId }

\* A session of DOOM II with item events, silent and notified, in and out of
\* game, location events of an unknown id, and updates.
NextItem ==
    \/ Boot("DOOM II")
    \/ \E item_id \in ItemInputs, notify_player \in BOOLEAN :
           pc = "done" /\ f_itemrecv(item_id, notify_player)
    \/ pc = "done" /\ f_locrecv(UnknownId)
    \/ \E value \in {0, 1} : EngineSetInGame(value)
    \/ apdoom_update

SpecItem == Init /\ [][NextItem]_vars

\* A session of DOOM II in which notified items arrive only while the player is
\* not in game, so that every item given was queued first.
NextQueue ==
    \/ Boot("DOOM II")
    \/ \E item_id \in ItemInputs :
           pc = "done" /\ ap_is_in_game = 0 /\ f_itemrecv(item_id, TRUE)
    \/ \E value \in {0, 1} : EngineSetInGame(value)
    \/ apdoom_update

SpecQueue == Init /\ [][NextQueue]_vars

\* A session of DOOM 1993 whose slot data enables and disables episodes 1 and 2
\* while connecting; levels are completed by the player and by items, and
\* victory is checked.
NextVictory ==
    \/ Boot("DOOM 1993")
    \/ \E n \in {1, 2}, ep \in {0, 1} : pc = "connect" /\ f_episode(n, ep)
    \/ \E n \in {6, 7, 9, 10} : pc = "done" /\ f_itemrecv(ItemId(ap_game, n), FALSE)
    \/ apdoom_complete_level(1, 1)
    \/ apdoom_check_victory

SpecVictory == Init /\ [][NextVictory]_vars

\* Sessions of Heretic in which the backpack and other items arrive, silently
\* and to be notified; the session is shut down and the program started again.
NextBackpack ==
    \/ Boot("Heretic")
    \/ \E n \in {3, 4, 8}, notify_player \in BOOLEAN :
           pc = "done" /\ f_itemrecv(ItemId(ap_game, n), notify_player)
    \/ apdoom_update
    \/ apdoom_shutdown("episodes_first", 0)
    \/ ProcessRestart

SpecBackpack == Init /\ [][NextBackpack]_vars

\* Processes that call apdoom_init once, for a supported or an unsupported
\* title; the server authenticates or refuses at any moment, or stays silent,
\* and may or may not answer the scout.  The engine completes a level, saves
\* and shuts down, and the program is started again.
NextSession ==
    \/ \E title \in {"DOOM II", "Hexen"} : pc = "start" /\ apdoom_init(title)
    \/ \E status \in {"Authenticated", "ConnectionRefused"} :
           pc \in {"connect", "failed"} /\ TransportStatus(status, "s1")
    \/ ConnectPoll("episodes_first")
    \/ pc = "scout" /\ f_locinfo(ScoutReply)
    \/ ScoutPoll
    \/ apdoom_complete_level(1, 1)
    \/ apdoom_save_state("episodes_first", 0)
    \/ apdoom_shutdown("episodes_first", 0)
    \/ ProcessRestart

SpecSession == Init /\ [][NextSession]_vars

\* A session of DOOM 1993 in which the player completes levels, two that have a
\* completion location and one, (2,1), that has none; the server reports a
\* location and a completion, and victory is checked.
NextComplete ==
    \/ Boot("DOOM 1993")
    \/ \E k \in {<<1, 1>>, <<1, 2>>, <<2, 1>>} : apdoom_complete_level(k[1], k[2])
    \/ pc = "done" /\ f_locrecv(LocId(ap_game, 1, 1, -1))
    \/ pc = "done" /\ f_itemrecv(ItemId(ap_game, 7), FALSE)
    \/ apdoom_check_victory

SpecComplete == Init /\ [][NextComplete]_vars

\* Sessions of DOOM 1993 with episode 1 alone enabled: its levels are completed
\* by the player and by items and victory is checked, before and after it is
\* reached; the session is shut down and the next one loads its save.
NextVictoryLoad ==
    \/ Boot("DOOM 1993")
    \/ \E n \in {6, 7} : pc = "done" /\ f_itemrecv(ItemId(ap_game, n), FALSE)
    \/ apdoom_complete_level(1, 1)
    \/ apdoom_check_victory
    \/ apdoom_shutdown("episodes_first", 0)
    \/ ProcessRestart

SpecVictoryLoad == Init /\ [][NextVictoryLoad]_vars

\* The first and the last episode and map of the game.
CornerLevels ==
    { <<ep, map>> : ep \in {1, ap_episode_count(ap_game)}, map \in {1, ap_map_count(ap_game)} }

\* A session of any of the three games in which the player completes the levels
\* at the corners of the arena.
NextAccess ==
    \/ \E title \in {"DOOM 1993", "DOOM II", "Heretic"} : Boot(title)
    \/ \E k \in CornerLevels : apdoom_complete_level(k[1], k[2])

SpecAccess == Init /\ [][NextAccess]_vars

\* Processes of DOOM 1993 whose slot data sets the flip mode and the difficulty
\* in any order while connecting; the room has one of two seeds.  A level is
\* completed, the session shut down and the program started again.
NextFlip ==
    \/ pc = "start" /\ apdoom_init("DOOM 1993")
    \/ \E value \in {0, 1, 2} : pc = "connect" /\ f_slot_int("flip_levels", value)
    \/ \E value \in {0, 1} : pc = "connect" /\ f_slot_int("difficulty", value)
    \/ \E seed \in Seeds : pc = "connect" /\ TransportStatus("Authenticated", seed)
    \/ ConnectPoll("episodes_first")
    \/ pc = "scout" /\ f_locinfo(ScoutReply)
    \/ ScoutPoll
    \/ apdoom_complete_level(1, 1)
    \/ apdoom_shutdown("episodes_first", 0)
    \/ ProcessRestart

SpecFlip == Init /\ [][NextFlip]_vars

\* A session of DOOM II in which messages arrive from the moment the transport
\* is started: while connecting, while the scout reply is awaited and after
\* init has returned; the engine calls update.
NextMessages ==
    \/ Boot("DOOM II")
    \/ \E msg \in {"m1", "m2"} : TransportMessage(msg)
    \/ apdoom_update

SpecMessages == Init /\ [][NextMessages]_vars

\* The events of the reconciliation after a connect: items delivered silently
\* (a key, the backpack, a level unlock) and locations of level (1,1), one of
\* them its completion location.
OrderEvents ==
    { <<"item", ItemId(ap_game, n)>> : n \in {1, 3, 5} }
        \cup { <<"loc", LocId(ap_game, 1, 1, index)>> : index \in {-1, 0, 1} }

\* A session of DOOM 1993 in which the server delivers these events in any
\* order and any number of times.
NextOrder ==
    \/ Boot("DOOM 1993")
    \/ \E e \in OrderEvents :
           /\ pc = "done"
           /\ IF e[1] = "item" THEN f_itemrecv(e[2], FALSE) ELSE f_locrecv(e[2])

SpecOrder == Init /\ [][NextOrder]_vars

\* The scout reply of a server that flags no location as progression.
ScoutReplyNoProgression == { <<LocId(ap_game, 1, 1, 0), 0>>, <<LocId(ap_game, 1, 1, 1), 2>> }

\* Processes of DOOM II whose server answers the scout with a reply that flags a
\* progression location, with one that flags none, or not at all; messages
\* arrive meanwhile.  The session is shut down and the program started again.
NextScout ==
    \/ pc = "start" /\ apdoom_init("DOOM II")
    \/ pc = "connect" /\ TransportStatus("Authenticated", "s1")
    \/ ConnectPoll("episodes_first")
    \/ \E reply \in {ScoutReply, ScoutReplyNoProgression} : pc = "scout" /\ f_locinfo(reply)
    \/ pc = "scout" /\ TransportMessage("m1")
    \/ ScoutPoll
    \/ apdoom_update
    \/ apdoom_shutdown("episodes_first", 0)
    \/ ProcessRestart

SpecScout == Init /\ [][NextScout]_vars

\* Processes of DOOM 1993 whose slot data enables and disables episodes 1 and 2
\* while connecting, or names no episode at all; a level is completed, the
\* session shut down and the program started again, so that a save is loaded.
NextEpisodes ==
    \/ pc = "start" /\ apdoom_init("DOOM 1993")
    \/ \E n \in {1, 2}, ep \in {0, 1} : pc = "connect" /\ f_episode(n, ep)
    \/ pc = "connect" /\ TransportStatus("Authenticated", "s1")
    \/ \E order \in EvalOrders : ConnectPoll(order)
    \/ pc = "scout" /\ f_locinfo(ScoutReply)
    \/ ScoutPoll
    \/ apdoom_complete_level(1, 1)
    \/ \E order \in EvalOrders : apdoom_shutdown(order, 0)
    \/ ProcessRestart

SpecEpisodes == Init /\ [][NextEpisodes]_vars

\* Location ids of the crowded level (2,1) of Heretic.
CrowdedInputs == { LocId(ap_game, 2, 1, index) : index \in 0..AP_CHECK_MAX }

\* A session of Heretic in which the locations of its crowded level are
\* checked, in any order and repeatedly, until a write leaves the array.
NextCapacity ==
    \/ Boot("Heretic")
    \/ \E loc_id \in CrowdedInputs : pc = "done" /\ ~mem_corrupt /\ f_locrecv(loc_id)
    \/ apdoom_update

SpecCapacity == Init /\ [][NextCapacity]_vars

\* The slot-data keys "episode1" .. "episode4" that apdoom_init registers a
\* callback for, whatever the title.
EpisodeCallbacks == 1..4

\* Processes of DOOM II and of Heretic whose slot data delivers any of the four
\* episode keys while connecting.
NextSlots ==
    \/ \E title \in {"DOOM II", "Heretic"} : pc = "start" /\ apdoom_init(title)
    \/ \E n \in EpisodeCallbacks, ep \in {0, 1} : pc = "connect" /\ f_episode(n, ep)
    \/ pc = "connect" /\ TransportStatus("Authenticated", "s1")
    \/ ConnectPoll("episodes_first")
    \/ pc = "scout" /\ f_locinfo(ScoutReply)
    \/ ScoutPoll

SpecSlots == Init /\ [][NextSlots]_vars

\* Processes of DOOM 1993 in which the backpack and another item arrive silently
\* at any time the callbacks are live, before the save is loaded as well as
\* after; the session is shut down and the program started again.
NextAmmo ==
    \/ Boot("DOOM 1993")
    \/ \E n \in {3, 8} : f_itemrecv(ItemId(ap_game, n), FALSE)
    \/ apdoom_update
    \/ apdoom_shutdown("episodes_first", 0)
    \/ ProcessRestart

SpecAmmo == Init /\ [][NextAmmo]_vars

\* A session of DOOM 1993 in which an item of every kind arrives silently and a
\* key arrives to be notified, in and out of game.
NextSilent ==
    \/ Boot("DOOM 1993")
    \/ \E n \in 1..6 : pc = "done" /\ f_itemrecv(ItemId(ap_game, n), FALSE)
    \/ pc = "done" /\ f_itemrecv(ItemId(ap_game, 1), TRUE)
    \/ \E value \in {0, 1} : EngineSetInGame(value)

SpecSilent == Init /\ [][NextSilent]_vars

\* A document without any member: every member reads as null, every array as empty.
EmptyDoc ==
    [exists |-> TRUE,
     player |-> [health |-> JNull, armor_points |-> JNull, armor_type |-> JNull,
                 backpack |-> JNull, ready_weapon |-> JNull, kill_count |-> JNull,
                 item_count |-> JNull, secret_count |-> JNull, powers |-> << >>,
                 weapon_owned |-> << >>, ammo |-> << >>, inventory |-> << >>],
     episodes |-> << >>, item_queue |-> << >>, ep |-> JNull, enabled_episodes |-> << >>,
     map |-> JNull, progressive_locations |-> << >>, victory |-> JNull]

\* Documents a save directory may hold that no save_state of this session wrote:
\* an empty one, one with flags only (a flag held as 0, another as 2), one with
\* player values only, and one whose members have the wrong type.
PartialDocs ==
    { EmptyDoc,
      [EmptyDoc EXCEPT
          !.victory = JInt(1),
          !.player.weapon_owned = <<JInt(0), JNull, JInt(1)>>,
          !.episodes = << <<[NullLevelDoc EXCEPT !.completed = JInt(0), !.keys1 = JInt(2),
                                                 !.special = JInt(1)]>> >>],
      [EmptyDoc EXCEPT
          !.player.health = JInt(50),
          !.player.ammo = <<JNull, JInt(7)>>,
          !.ep = JInt(1),
          !.map = JInt(2),
          !.item_queue = <<JInt(ItemId("doom", 8))>>,
          !.episodes = << <<NullLevelDoc, [NullLevelDoc EXCEPT !.has_map = JInt(1)]>> >>],
      [EmptyDoc EXCEPT
          !.player.health = JBool(1),
          !.player.powers = <<JBool(1)>>,
          !.victory = JBool(1),
          !.map = JBool(1),
          !.item_queue = <<JNull, JBool(1)>>,
          !.progressive_locations = <<JBool(1)>>,
          !.episodes = << <<[NullLevelDoc EXCEPT !.unlocked = JBool(1)]>> >>] }

\* The file load_state opens is there before the program starts.
SaveFilePresent(doc) ==
    /\ pc = "start"
    /\ inits = 0
    /\ ~disk[SaveDirName("s1")].exists
    /\ disk' = [disk EXCEPT ![SaveDirName("s1")] = doc]
    /\ last' = [op |-> "SaveFilePresent", arg |-> << >>]
    /\ UNCHANGED <<sessionVars, ap_state, ap_is_in_game, ap_item_queue,
                   ap_progressive_locations, ap_cached_messages, ap_notification_icons,
                   transport, engine, mem_corrupt>>

\* Processes of DOOM 1993 that find no save file, a partial or wrongly typed one,
\* or the one the previous process saved; a key and a completion may arrive while
\* connecting, before the file is loaded.
NextMerge ==
    \/ \E doc \in PartialDocs : SaveFilePresent(doc)
    \/ Boot("DOOM 1993")
    \/ \E n \in {1, 6} : pc = "connect" /\ f_itemrecv(ItemId(ap_game, n), FALSE)
    \/ apdoom_shutdown("episodes_first", 0)
    \/ ProcessRestart

SpecMerge == Init /\ [][NextMerge]_vars

\* A session of DOOM 1993 whose slot data chose a flip mode while connecting;
\* once init has returned, items, locations and slot data arrive, the engine
\* submits, completes, checks victory and updates, and saves once it has
\* submitted all it may.
NextFrozen ==
    \/ pc = "start" /\ apdoom_init("DOOM 1993")
    \/ \E value \in {1, 2} : pc = "connect" /\ f_slot_int("flip_levels", value)
    \/ pc = "connect" /\ TransportStatus("Authenticated", "s1")
    \/ ConnectPoll("episodes_first")
    \/ pc = "scout" /\ f_locinfo(ScoutReply)
    \/ ScoutPoll
    \/ pc = "done" /\ f_itemrecv(ItemId(ap_game, 6), FALSE)
    \/ pc = "done" /\ f_locrecv(LocId(ap_game, 1, 1, 0))
    \/ pc = "done" /\ f_slot_int("flip_levels", 1)
    \/ pc = "done" /\ f_episode(2, 1)
    \/ apdoom_check_location(1, 1, 0)
    \/ apdoom_complete_level(1, 2)
    \/ apdoom_check_victory
    \/ apdoom_update
    \/ Len(transport.sent) = MaxSent /\ apdoom_save_state("episodes_first", 0)

SpecFrozen == Init /\ [][NextFrozen]_vars

\* One process that calls apdoom_init, again after a failure; the transport
\* changes its status at any moment of either blocking phase, delivers messages,
\* and answers the scout with or without a progression location, or not at all.
NextInit ==
    \/ pc \in {"start", "failed"} /\ apdoom_init("DOOM II")
    \/ \E status \in {"Authenticated", "ConnectionRefused", "Disconnected"} :
           pc \in {"connect", "scout"} /\ TransportStatus(status, "s1")
    \/ pc \in {"connect", "scout"} /\ TransportMessage("m1")
    \/ ConnectPoll("episodes_first")
    \/ \E loc_infos \in {ScoutReply, ScoutReplyNoProgression} :
           pc = "scout" /\ f_locinfo(loc_infos)
    \/ ScoutPoll

\* The thread inside apdoom_init keeps running its loop: a round of the connect
\* loop or of the scout loop that can be taken is taken.
SpecInit ==
    /\ Init
    /\ [][NextInit]_vars
    /\ WF_vars(ConnectPoll("episodes_first"))
    /\ WF_vars(ScoutPoll)

\* Sessions of Heretic in which the engine fills the first two inventory slots
\* with the per-level type 9 or with another type; the session is shut down and
\* the program started again.
NextInventory ==
    \/ Boot("Heretic")
    \/ \E i \in {0, 1}, type \in {3, 9}, count \in {1, 2} : EngineSetInventory(i, type, count)
    \/ apdoom_shutdown("episodes_first", 0)
    \/ ProcessRestart

SpecInventory == Init /\ [][NextInventory]_vars

\* A session of DOOM II in which a key and a weapon, both shown with an icon,
\* arrive once each, notified, while no icon has started to move: before the player
\* is in game, in a burst, or one after the other has left the screen.  The engine
\* enters the game and keeps updating.
NextIcons ==
    \/ Boot("DOOM II")
    \/ \E n \in {1, 4} :
           /\ pc = "done"
           /\ \A k \in 1..Len(ap_notification_icons) : ap_notification_icons[k].state = "PENDING"
           /\ ItemId(ap_game, n) \notin { ap_item_queue[k] : k \in 1..Len(ap_item_queue) }
           /\ \A k \in 1..Len(engine.given) :
                  \A r \in item_table_rows(ItemId(ap_game, n)) : engine.given[k][1] # r.doom_type
           /\ f_itemrecv(ItemId(ap_game, n), TRUE)
    \/ EngineSetInGame(1)
    \/ apdoom_update

SpecIcons == Init /\ [][NextIcons]_vars

\* A session of DOOM II in which the engine has entered the game, an item shown
\* with an icon arrives notified, any number of times, in bursts while no icon has
\* started to move, and the engine keeps calling apdoom_update.
NextIconQueue ==
    \/ Boot("DOOM II")
    \/ \E n \in {1} :
           /\ pc = "done"
           /\ ap_is_in_game # 0
           /\ \A k \in 1..Len(ap_notification_icons) : ap_notification_icons[k].state = "PENDING"
           /\ f_itemrecv(ItemId(ap_game, n), TRUE)
    \/ EngineSetInGame(1)
    \/ apdoom_update

SpecIconQueue ==
    /\ Init
    /\ [][NextIconQueue]_vars
    /\ WF_vars(apdoom_update)

\* One process of DOOM II that calls apdoom_init again after an attempt that
\* returned 0.  The server authenticates or refuses while the connect loop polls,
\* or stays silent, and may or may not answer the scout; the engine completes a
\* level, saves and shuts down.
NextRetry ==
    \/ apdoom_init("DOOM II")
    \/ \E status \in {"Authenticated", "ConnectionRefused"} :
           pc = "connect" /\ TransportStatus(status, "s1")
    \/ ConnectPoll("episodes_first")
    \/ pc = "scout" /\ f_locinfo(ScoutReply)
    \/ ScoutPoll
    \/ apdoom_complete_level(1, 1)
    \/ apdoom_save_state("episodes_first", 0)
    \/ apdoom_shutdown("episodes_first", 0)

SpecRetry == Init /\ [][NextRetry]_vars

(* ---------------------------- level select ---------------------------- *)

\* The engine identifies the game it runs before it calls apdoom_init.
EngineSetGameMode(mode) ==
    /\ pc = "start"
    /\ engine.gamemode = "indetermined"
    /\ engine' = [engine EXCEPT !.gamemode = mode]
    /\ last' = [op |-> "EngineSetGameMode", arg |-> <<mode>>]
    /\ UNCHANGED <<sessionVars, ap_state, ap_is_in_game, ap_item_queue,
                   ap_progressive_locations, ap_cached_messages, ap_notification_icons,
                   transport, disk, mem_corrupt>>

\* get_episode_count(): the episodes enabled, 0 in a commercial game.
get_episode_count ==
    IF engine.gamemode # "commercial"
    THEN Cardinality({ i \in 0..(ap_episode_count(ap_game) - 1) : ap_state.episodes[i] # 0 })
    ELSE 0

\* A search that takes the following episode, enabled or not.
NextEpisodeSearch_NoSkip(ep, prev, rounds) == [ep |-> ep, rounds |-> rounds]

RECURSIVE NextEpisodeSearch(_, _, _)
\* The while loop of level_select_next_episode from selected_ep = ep on, and the
\* rounds it takes; it is followed for one round more than there are episodes.
NextEpisodeSearch(ep, prev, rounds) ==
    IF ap_state.episodes[ep] # 0 \/ rounds > ap_episode_count(ap_game)
    THEN [ep |-> ep, rounds |-> rounds]
    ELSE LET n == (ep + 1) % ap_episode_count(ap_game)
         IN  IF n = prev THEN [ep |-> n, rounds |-> rounds + 1]
             ELSE NextEpisodeSearch(n, prev, rounds + 1)

\* selected_ep--, wrapping below 0 to the last episode.
PrevEpisode(ep) == IF ep - 1 < 0 THEN ap_episode_count(ap_game) - 1 ELSE ep - 1

RECURSIVE PrevEpisodeSearch(_, _, _)
\* The while loop of level_select_prev_episode, followed in the same way.
PrevEpisodeSearch(ep, prev, rounds) ==
    IF ap_state.episodes[ep] # 0 \/ rounds > ap_episode_count(ap_game)
    THEN [ep |-> ep, rounds |-> rounds]
    ELSE LET n == PrevEpisode(ep)
         IN  IF n = prev THEN [ep |-> n, rounds |-> rounds + 1]
             ELSE PrevEpisodeSearch(n, prev, rounds + 1)

RECURSIVE ShowEpisodeSearch(_, _)
\* The while loop of ShowLevelSelect, which stops when it comes round to episode 0.
ShowEpisodeSearch(ep, rounds) ==
    IF ap_state.episodes[ep] # 0 \/ rounds > ap_episode_count(ap_game)
    THEN [ep |-> ep, rounds |-> rounds]
    ELSE LET n == (ep + 1) % ap_episode_count(ap_game)
         IN  IF n = 0 THEN [ep |-> n, rounds |-> rounds + 1]
             ELSE ShowEpisodeSearch(n, rounds + 1)

\* level_select_prev_episode(), called by the screen's responder while the screen
\* is shown; the animation counters are left out.
level_select_prev_episode ==
    /\ pc = "done"
    /\ engine.gamestate = "GS_LEVEL_SELECT"
    /\ IF engine.gamemode # "shareware" /\ get_episode_count > 1
       THEN engine' = [engine EXCEPT
                          !.prev_ep = engine.selected_ep,
                          !.selected_ep = PrevEpisodeSearch(PrevEpisode(engine.selected_ep),
                                                            engine.selected_ep, 0).ep]
       ELSE UNCHANGED engine
    /\ last' = [op |-> "level_select_prev_episode", arg |-> << >>]
    /\ UNCHANGED <<sessionVars, ap_state, ap_is_in_game, ap_item_queue,
                   ap_progressive_locations, ap_cached_messages, ap_notification_icons,
                   transport, disk, mem_corrupt>>

\* level_select_next_episode(), called in the same way.
level_select_next_episode ==
    /\ pc = "done"
    /\ engine.gamestate = "GS_LEVEL_SELECT"
    /\ IF engine.gamemode # "shareware" /\ get_episode_count > 1
       THEN engine' = [engine EXCEPT
                          !.prev_ep = engine.selected_ep,
                          !.selected_ep =
                              NextEpisodeSearch((engine.selected_ep + 1)
                                                    % ap_episode_count(ap_game),
                                                engine.selected_ep, 0).ep]
       ELSE UNCHANGED engine
    /\ last' = [op |-> "level_select_next_episode", arg |-> << >>]
    /\ UNCHANGED <<sessionVars, ap_state, ap_is_in_game, ap_item_queue,
                   ap_progressive_locations, ap_cached_messages, ap_notification_icons,
                   transport, disk, mem_corrupt>>

\* ShowLevelSelect() called outside a level: ap_state.ep and map are cleared and
\* the episode shown is chosen.
ShowLevelSelect ==
    /\ pc = "done"
    /\ ap_state' = [ap_state EXCEPT !.ep = 0, !.map = 0]
    /\ engine' = [engine EXCEPT
                      !.gamestate = "GS_LEVEL_SELECT",
                      !.selected_ep = IF engine.gamemode = "commercial" THEN 0
                                      ELSE ShowEpisodeSearch(engine.selected_ep, 0).ep]
    /\ last' = [op |-> "ShowLevelSelect", arg |-> << >>]
    /\ UNCHANGED <<sessionVars, ap_is_in_game, ap_item_queue, ap_progressive_locations,
                   ap_cached_messages, ap_notification_icons, transport, disk, mem_corrupt>>

\* The title the engine passes to apdoom_init for its game mode.
ModeTitle(mode) == IF mode = "commercial" THEN "DOOM II" ELSE "DOOM 1993"

\* Processes of DOOM 1993 in its shareware and retail modes and of DOOM II, whose
\* slot data enables and disables the four episodes while connecting; the level
\* select screen is shown and the player moves between the episodes.
NextLevelSelect ==
    \/ \E mode \in {"shareware", "retail", "commercial"} : EngineSetGameMode(mode)
    \/ /\ pc = "start"
       /\ engine.gamemode # "indetermined"
       /\ apdoom_init(ModeTitle(engine.gamemode))
    \/ \E n \in EpisodeCallbacks, ep \in {0, 1} :
           /\ pc = "connect"
           /\ n - 1 \in DOMAIN ap_state.episodes
           /\ f_episode(n, ep)
    \/ pc = "connect" /\ TransportStatus("Authenticated", "s1")
    \/ ConnectPoll("episodes_first")
    \/ pc = "scout" /\ f_locinfo(ScoutReply)
    \/ ScoutPoll
    \/ ShowLevelSelect
    \/ level_select_next_episode
    \/ level_select_prev_episode

SpecLevelSelect == Init /\ [][NextLevelSelect]_vars

(* ------------------------------- claims ------------------------------- *)

\* Network ids of the location table of the active game.
CatalogLocIds == { r.id : r \in get_location_table(ap_game) }

\* A step that replaces the store by a new one: init's memset, a new process.
StoreReset == last'.op \in {"apdoom_init", "ProcessRestart"}

\* Delivering loc_id now would leave every level's check_count and checks as they are.
LocAbsorbed(level_states, loc_id) == LocRecv(level_states, loc_id) = level_states

\* No local index occurs twice among checks[0..check_count-1].
NoDuplicateChecks(level_state) ==
    \A i, j \in 0..(level_state.check_count - 1) :
        (i < AP_CHECK_MAX /\ j < AP_CHECK_MAX /\ i # j) =>
            level_state.checks[i] # level_state.checks[j]

\* C1: for every location id of the catalog, once f_locrecv has delivered it a
\* further delivery changes no level's check_count or checks, be it the next event
\* or one after any other events of the session, and the delivery leaves no local
\* index twice in a checked list.
C1_LocRecvIdempotent ==
    [][\A loc_id \in CatalogLocIds :
          /\ (last' = [op |-> "f_locrecv", arg |-> <<loc_id>>] /\ f_locrecv(loc_id)) =>
                /\ LocAbsorbed(ap_state'.level_states, loc_id)
                /\ \A idx \in DOMAIN ap_state'.level_states :
                       NoDuplicateChecks(ap_state'.level_states[idx])
          /\ (/\ ap_state'.level_states # ap_state.level_states
              /\ ~StoreReset
              /\ LocAbsorbed(ap_state.level_states, loc_id)) =>
                LocAbsorbed(ap_state'.level_states, loc_id)]_vars

\* C1 witness: index 0 of level (1,1) was recorded, then index 1, and the event
\* that led here delivered the location of index 0 once more.
C1_Witness ==
    /\ last = [op |-> "f_locrecv", arg |-> <<LocId("doom", 1, 1, 0)>>]
    /\ ap_game = "doom"
    /\ ap_state.level_states[0].check_count = 2
    /\ ap_state.level_states[0].checks[0] = 0
    /\ ap_state.level_states[0].checks[1] = 1

\* checks[0..check_count-1] are distinct non-negative indices and every later slot
\* holds the -1 filler.
ChecksWellFormed(level_state) ==
    /\ level_state.check_count \in 0..AP_CHECK_MAX
    /\ \A i \in 0..(AP_CHECK_MAX - 1) :
          IF i < level_state.check_count
          THEN level_state.checks[i] >= 0
          ELSE level_state.checks[i] = -1
    /\ NoDuplicateChecks(level_state)

\* C2: in every state reachable through location events, item events,
\* check_location, complete_level, update, save and load, each level's checks
\* hold check_count distinct non-negative indices followed by -1 fillers.
C2_ChecksInvariant ==
    \A idx \in DOMAIN ap_state.level_states :
        ChecksWellFormed(ap_state.level_states[idx])

\* C2 witness: a session that loaded a saved file and then recorded two locations.
C2_Witness ==
    /\ ap_save_dir_name \in SaveDirs
    /\ disk[ap_save_dir_name].exists
    /\ inits = 2
    /\ ap_state.level_states[0].check_count = 2
    /\ ap_state.level_states[0].completed = 1

\* Everything but the record of the last operation is left as it was.
UnchangedButLast ==
    UNCHANGED <<ap_game, ap_state, ap_is_in_game, ap_item_queue, ap_was_connected,
                ap_progressive_locations, ap_initialized, ap_cached_messages,
                ap_save_dir_name, ap_notification_icons, pc, elapsed, inits, transport,
                engine, disk, mem_corrupt>>

\* C3: an item event and a location event whose id is in no table leave the State
\* Store (player and level state, pending queue, progressive set, icons) and all
\* the rest of the session as they were and call no engine callback; an event of
\* a known id delivered afterwards (or at any time) still has its effect.
C3_UnknownIdsIgnored ==
    [][/\ (\/ last' = [op |-> "f_itemrecv", arg |-> <<UnknownId, TRUE>>]
           \/ last' = [op |-> "f_itemrecv", arg |-> <<UnknownId, FALSE>>]
           \/ last' = [op |-> "f_locrecv", arg |-> <<UnknownId>>]) => UnchangedButLast
       /\ (last'.op = "f_itemrecv" /\ last'.arg[1] = ItemId(ap_game, 5)) =>
              ap_state'.level_states[ap_get_level_state(1, 2)].unlocked = 1]_vars

\* C3 witness: an unknown item arrives, to be notified, while the player is in game
\* and after a known item was given to the engine.
C3_Witness ==
    /\ last = [op |-> "f_itemrecv", arg |-> <<UnknownId, TRUE>>]
    /\ ap_is_in_game = 1
    /\ Len(engine.given) = 1
    /\ ap_item_queue = << >>

\* The call of give_item_callback f_itemrecv makes for a known item id.
GivenFor(item_id) ==
    LET item == CHOOSE r \in item_table_rows(item_id) : TRUE
    IN  <<item.doom_type, item.ep, item.map>>

\* C4: a known item received with notify while not in game is appended to the
\* pending queue; update while not in game leaves the queue as it is; update while
\* in game gives the queued items to the engine in arrival order and empties the
\* queue.
C4_PendingQueueFifo ==
    [][/\ (/\ last'.op = "f_itemrecv"
           /\ last'.arg[2]
           /\ ap_is_in_game = 0
           /\ item_table_rows(last'.arg[1]) # {}) =>
              ap_item_queue' = Append(ap_item_queue, last'.arg[1])
       /\ (last'.op = "apdoom_update" /\ ap_is_in_game = 0) =>
              ap_item_queue' = ap_item_queue /\ engine'.given = engine.given
       /\ (last'.op = "apdoom_update" /\ ap_is_in_game # 0) =>
              /\ ap_item_queue' = << >>
              /\ engine'.given =
                     engine.given \o [k \in 1..Len(ap_item_queue) |-> GivenFor(ap_item_queue[k])]]_vars

\* C4 witness: an update in game has given two different queued items, the one
\* that arrived first given first.
C4_Witness ==
    /\ last.op = "apdoom_update"
    /\ ap_is_in_game = 1
    /\ ap_item_queue = << >>
    /\ engine.given = <<GivenFor(ItemId(ap_game, 8)), GivenFor(ItemId(ap_game, 5))>>

\* The episodes the slot data enabled, numbered from 1.
EnabledEpisodes(st) == { ep \in 1..ap_episode_count(ap_game) : st.episodes[ep - 1] # 0 }

\* Every map of every enabled episode is completed.
AllEnabledCompleted(st) ==
    \A ep \in EnabledEpisodes(st), map \in 1..ap_map_count(ap_game) :
        st.level_states[ap_get_level_state(ep, map)].completed # 0

\* The levels of the episodes that are not enabled, as indices of level_states.
DisabledLevels(st) ==
    { ap_get_level_state(ep, map) :
        ep \in (1..ap_episode_count(ap_game)) \ EnabledEpisodes(st),
        map \in 1..ap_map_count(ap_game) }

\* C5: with the victory flag not yet set, apdoom_check_victory sets it if and
\* only if every map of every enabled episode is completed; whatever the
\* completed flag of a map of a disabled episode is, the outcome is the same.
C5_VictoryIffEnabledCompleted ==
    [][(last'.op = "apdoom_check_victory" /\ ap_state.victory = 0) =>
          /\ (ap_state'.victory = 1) <=> AllEnabledCompleted(ap_state)
          /\ \A idx \in DisabledLevels(ap_state), v \in {0, 1} :
                 VictoryScan([ap_state EXCEPT !.level_states[idx].completed = v])
                     <=> (ap_state'.victory = 1)]_vars

\* C5 witness: victory was declared with episode 1 alone enabled, while episode 2
\* has one map completed and one not.
C5_Witness ==
    /\ last.op = "apdoom_check_victory"
    /\ ap_state.victory = 1
    /\ engine.victory_calls = 1
    /\ EnabledEpisodes(ap_state) = {1}
    /\ ap_state.level_states[ap_get_level_state(2, 1)].completed = 1
    /\ ap_state.level_states[ap_get_level_state(2, 2)].completed = 0

\* (ep, map, index) is in the location catalog of the game.
InCatalog(ep, map, index) ==
    \E r \in get_location_table(ap_game) : r.ep = ep /\ r.map = map /\ r.index = index

\* C10: apdoom_check_location(ep, map, index) sends nothing for a triple the
\* catalog does not hold and otherwise sends the location's network id exactly
\* once, also for an index already checked and for index -1; the State Store is
\* never changed.
C10_CheckLocationSendsOnce ==
    [][last'.op = "apdoom_check_location" =>
          /\ transport'.sent =
                 IF InCatalog(last'.arg[1], last'.arg[2], last'.arg[3])
                 THEN Append(transport.sent,
                             LocId(ap_game, last'.arg[1], last'.arg[2], last'.arg[3]))
                 ELSE transport.sent
          /\ transport' = [transport EXCEPT !.sent = transport'.sent]
          /\ UNCHANGED <<ap_state, ap_item_queue, ap_progressive_locations,
                         ap_notification_icons, engine, disk>>]_vars

\* C10 witness: the completion location (index -1) of level (1,1) was submitted,
\* then index 0 of that level, which the server had already reported checked.
C10_Witness ==
    /\ last = [op |-> "apdoom_check_location", arg |-> <<1, 1, 0>>]
    /\ is_loc_checked(1, 1, 0)
    /\ transport.sent = <<LocId(ap_game, 1, 1, -1), LocId(ap_game, 1, 1, 0)>>

\* load_state into a store apdoom_init has just set up for the game, with an empty
\* queue and an empty progressive set, of what save_state writes for the
\* session as it is.
RoundTrip(order) ==
    LoadDoc([st |-> FreshStore(ap_game), queue |-> << >>, progressive |-> {},
             corrupt |-> FALSE],
            SaveDoc(ap_state, ap_item_queue, ap_progressive_locations, order, 0), order)

\* The persisted fields of two level records are equal.
LevelFieldsEqual(a, b) ==
    /\ a.completed = b.completed
    /\ a.keys = b.keys
    /\ a.has_map = b.has_map
    /\ a.unlocked = b.unlocked
    /\ a.special = b.special
    /\ a.check_count = b.check_count
    /\ a.checks = b.checks

\* C6: once init has returned, save_state followed by load_state into a freshly
\* initialized store of the same game yields the player fields, the per-level
\* flags, the checked lists and check_count, the enabled episodes, the
\* progressive set and the victory flag of the saved store, and the pending
\* queue with the same ids in the same order.
C6_RoundTripFieldEqual ==
    pc = "done" =>
        \A order \in EvalOrders :
            LET l == RoundTrip(order)
            IN  /\ l.st.player_state = ap_state.player_state
                /\ \A idx \in DOMAIN ap_state.level_states :
                       LevelFieldsEqual(l.st.level_states[idx], ap_state.level_states[idx])
                /\ l.st.episodes = ap_state.episodes
                /\ l.progressive = ap_progressive_locations
                /\ l.st.victory = ap_state.victory
                /\ l.queue = ap_item_queue

\* Every max_ammo is twice the base value of the ammo table.
MaxAmmoDoubled(ps) ==
    \A i \in 0..(ap_ammo_count(ap_game) - 1) : ps.max_ammo[i] = 2 * get_max_ammos(ap_game)[i + 1]

C9_ConnectLoopExits ==
    [][/\ (pc = "connect" /\ last'.op = "ConnectPoll") =>
              CASE transport.status = "Authenticated" ->
                       /\ pc' \in {"scout", "done"}
                       /\ ap_was_connected'
                       /\ ap_save_dir_name' = SaveDirName(transport.seed)
                [] transport.status = "ConnectionRefused" ->
                       pc' = "failed" /\ elapsed' = elapsed
                [] OTHER ->
                       /\ elapsed' = elapsed + 1
                       /\ pc' = IF elapsed' > Deadline THEN "failed" ELSE "connect"
       /\ (pc = "connect" /\ pc' # "connect") => last'.op = "ConnectPoll"
       /\ (\/ pc' = "scout" /\ pc # "scout"
           \/ pc' = "done" /\ pc = "connect"
           \/ ap_save_dir_name' \notin {ap_save_dir_name, ""}
           \/ Len(transport'.scouts) > Len(transport.scouts)) =>
              pc = "connect" /\ transport.status = "Authenticated"]_vars

\* C9 witness: after one sleep the poll observed ConnectionRefused and init failed
\* with the deadline not yet reached.
C9_Witness ==
    /\ last = [op |-> "ConnectPoll", arg |-> <<"ConnectionRefused">>]
    /\ pc = "failed"
    /\ elapsed = 1
    /\ elapsed <= Deadline
    /\ ~ap_was_connected

\* C11: apdoom_complete_level(ep, map) sets completed in the record of (ep, map)
\* and in no other, and submits the level's completion location (index -1) if
\* the catalog has one; the send is recorded in a state where the flag is set,
\* and the flag is set also when there is nothing to send.
C11_CompleteLevelFlagThenSend ==
    [][last'.op = "apdoom_complete_level" =>
          LET ep == last'.arg[1]
              map == last'.arg[2]
              idx == (ep - 1) * ap_map_count(ap_game) + (map - 1)
          IN  /\ ap_state'.level_states[idx].completed = 1
              /\ ap_state' = [ap_state EXCEPT !.level_states[idx].completed = 1]
              /\ transport'.sent =
                     IF InCatalog(ep, map, -1)
                     THEN Append(transport.sent, LocId(ap_game, ep, map, -1))
                     ELSE transport.sent]_vars

\* C11 witness: level (1,1) was completed and its completion location sent, then
\* level (2,1), which has no completion location, was completed and nothing sent.
C11_Witness ==
    /\ last = [op |-> "apdoom_complete_level", arg |-> <<2, 1>>]
    /\ ~InCatalog(2, 1, -1)
    /\ ap_state.level_states[ap_get_level_state(2, 1)].completed = 1
    /\ ap_state.level_states[ap_get_level_state(1, 2)].completed = 0
    /\ transport.sent = <<LocId(ap_game, 1, 1, -1)>>

\* C12: within a session the story-complete notification and the victory callback
\* are issued only by the apdoom_check_victory call that takes the victory flag
\* from unset to set, once each in that call, hence at most once; the flag is
\* not cleared again, and apdoom_check_victory with the flag set changes
\* nothing.
C12_VictoryAnnouncedOnce ==
    [][/\ ((\/ transport'.story_complete # transport.story_complete
            \/ engine'.victory_calls # engine.victory_calls)
           /\ last'.op # "ProcessRestart") =>
              /\ last'.op = "apdoom_check_victory"
              /\ ap_state.victory = 0 /\ ap_state'.victory = 1
              /\ transport'.story_complete = transport.story_complete + 1
              /\ engine'.victory_calls = engine.victory_calls + 1
       /\ (ap_state.victory # 0 /\ ap_state'.victory = 0) =>
              last'.op \in {"ProcessRestart", "apdoom_init"}
       /\ (ap_state.victory = 0 /\ ap_state'.victory # 0 /\ last'.op = "apdoom_check_victory") =>
              transport'.story_complete = transport.story_complete + 1
       /\ (last'.op = "apdoom_check_victory" /\ ap_state.victory # 0) => UnchangedButLast
       /\ transport'.story_complete <= 1 /\ engine'.victory_calls <= 1]_vars

\* C12 witness: the session loaded a save in which victory was recorded, and
\* apdoom_check_victory was called: nothing was announced.
C12_Witness ==
    /\ last.op = "apdoom_check_victory"
    /\ inits = 2
    /\ ap_state.victory = 1
    /\ transport.story_complete = 0
    /\ engine.victory_calls = 0

\* The valid (ep, map) pairs of the game.
LevelPairs == (1..ap_episode_count(ap_game)) \X (1..ap_map_count(ap_game))

\* C13: for every episode and map of the game ap_get_level_state(ep, map) is the
\* arena index (ep-1)*map_count+(map-1), a record of the arena once init has
\* allocated it; distinct pairs yield distinct records and every arena index
\* 0..episode_count*map_count-1 belongs to exactly one pair.
C13_LevelStateBijection ==
    ap_game # "none" =>
        LET n == ap_episode_count(ap_game) * ap_map_count(ap_game)
        IN  /\ \A p \in LevelPairs :
                   /\ ap_get_level_state(p[1], p[2]) = (p[1] - 1) * ap_map_count(ap_game) + (p[2] - 1)
                   /\ ap_get_level_state(p[1], p[2]) \in 0..(n - 1)
                   /\ ap_state.level_states # << >> =>
                          ap_get_level_state(p[1], p[2]) \in DOMAIN ap_state.level_states
            /\ \A p \in LevelPairs, q \in LevelPairs :
                   ap_get_level_state(p[1], p[2]) = ap_get_level_state(q[1], q[2]) => p = q
            /\ \A idx \in 0..(n - 1) :
                   Cardinality({ p \in LevelPairs : ap_get_level_state(p[1], p[2]) = idx }) = 1
            /\ (last.op = "apdoom_complete_level") =>
                   ap_state.level_states[(last.arg[1] - 1) * ap_map_count(ap_game)
                                         + (last.arg[2] - 1)].completed = 1

\* C13 witness: in Heretic the last map of the last episode was completed, and the
\* record written is the last of the arena, the only one completed.
C13_Witness ==
    /\ ap_game = "heretic"
    /\ last = [op |-> "apdoom_complete_level",
               arg |-> <<ap_episode_count("heretic"), ap_map_count("heretic")>>]
    /\ \A idx \in DOMAIN ap_state.level_states :
           ap_state.level_states[idx].completed = 1
               <=> idx = ap_episode_count("heretic") * ap_map_count("heretic") - 1

\* The flip flag of the level at arena index idx that the save directory name
\* alone determines: the bit of the (idx+1)-th draw of the generator seeded with
\* the hash of the name.
SeededFlip(dir, idx) == RandBit(hash_seed(SaveDirChars(dir)), idx + 1)

\* C14: with flip mode 2, whenever init has got past the connect phase the flip
\* flag of every level is the one the save directory name determines, whatever
\* the other slot data, the order of the events, the saved state and the number
\* of the run.
C14_SeededFlipDeterministic ==
    (pc \in {"scout", "done"} /\ ap_state.flip_levels = 2) =>
        \A idx \in DOMAIN ap_state.level_states :
            ap_state.level_states[idx].flipped = SeededFlip(ap_save_dir_name, idx)

\* C14 witness: the second run with the directory of seed s1, a difficulty set
\* and a save loaded in which a level is completed; some level is flipped and
\* some is not.
C14_Witness ==
    /\ pc = "done"
    /\ inits = 2
    /\ ap_state.flip_levels = 2
    /\ ap_state.difficulty = 1
    /\ ap_save_dir_name = SaveDirName("s1")
    /\ last = [op |-> "ConnectPoll", arg |-> <<"Authenticated">>]
    /\ ap_state.level_states[0].completed = 1
    /\ \E i \in DOMAIN ap_state.level_states, j \in DOMAIN ap_state.level_states :
           ap_state.level_states[i].flipped = 1 /\ ap_state.level_states[j].flipped = 0

\* C15: apdoom_init with a title that is none of the three supported ones returns
\* failure; the transport is not set up, announced to or started and no callback
\* is registered, and the session is not marked initialized.
C15_UnsupportedTitleFails ==
    [][(last'.op = "apdoom_init" /\ last'.arg[1] \notin {"DOOM 1993", "DOOM II", "Heretic"}) =>
          /\ pc' = "failed"
          /\ transport' = transport
          /\ ~transport'.started /\ ~transport'.registered
          /\ ~ap_initialized'
          /\ ~ap_was_connected'
          /\ UNCHANGED <<ap_game, engine, disk>>]_vars

\* C15 witness: the second process, started after a session of DOOM II was saved,
\* calls init with the title Hexen.
C15_Witness ==
    /\ last = [op |-> "apdoom_init", arg |-> <<"Hexen">>]
    /\ inits = 2
    /\ pc = "failed"
    /\ ~transport.started
    /\ disk[SaveDirName("s1")].exists

\* The messages of the session in arrival order: those dispatched to the engine,
\* then those cached, then those pending in the transport.
MessagesInOrder == engine.messages \o ap_cached_messages \o transport.messages

\* A step in which the body of apdoom_update runs: the engine's call, or a round of
\* the scout loop that has no progressive location yet.
UpdateRuns ==
    \/ last'.op = "apdoom_update"
    \/ last'.op = "ScoutPoll" /\ ap_progressive_locations = {}

\* C16: no message is lost, repeated or reordered on its way from the transport
\* through the cache to the message callback.  A run of update leaves no message
\* pending; with the session initialized it dispatches the cached messages and
\* then the pending ones, in arrival order, and empties the cache; with the
\* session not initialized it dispatches nothing and appends the pending
\* messages to the cache.  Nothing but update dispatches.
C16_MessagesOnceInOrder ==
    [][/\ (last'.op = "TransportMessage") =>
              MessagesInOrder' = Append(MessagesInOrder, last'.arg[1])
       /\ (last'.op \notin {"TransportMessage", "ProcessRestart"}) =>
              MessagesInOrder' = MessagesInOrder
       /\ UpdateRuns =>
              /\ transport'.messages = << >>
              /\ IF ap_initialized
                 THEN /\ ap_cached_messages' = << >>
                      /\ engine'.messages =
                             engine.messages \o ap_cached_messages \o transport.messages
                 ELSE /\ engine'.messages = engine.messages
                      /\ ap_cached_messages' = ap_cached_messages \o transport.messages
       /\ (engine'.messages # engine.messages /\ last'.op # "ProcessRestart") =>
              last'.op = "apdoom_update" /\ ap_initialized]_vars

\* C16 witness: message m1 was drained while the scout reply was awaited and is
\* cached, undispatched; init has returned and m2 is pending behind it.
C16_Witness ==
    /\ pc = "done"
    /\ ap_initialized
    /\ engine.messages = << >>
    /\ ap_cached_messages = <<"m1">>
    /\ transport.messages = <<"m2">>

\* C17: delivering an item-received event once more, with the same item id and the
\* same notify value, leaves the level flags, the player flags, max_ammo and the
\* pending item queue as they are after the first delivery.
C17_ItemRedeliveryIdempotent ==
    last.op = "f_itemrecv" =>
        LET again == ItemRecv(World, last.arg[1], last.arg[2], ap_is_in_game)
        IN  /\ again.st = ap_state
            /\ again.queue = ap_item_queue

\* The store after the event e is delivered to the store st.
Deliver(st, e) ==
    IF e[1] = "item"
    THEN ItemRecv([World EXCEPT !.st = st], e[2], FALSE, ap_is_in_game).st
    ELSE [st EXCEPT !.level_states = LocRecv(@, e[2])]

RECURSIVE DeliverAll(_, _)
\* The store after the events of the set S are delivered once each, in the
\* ascending order of their ids.
DeliverAll(st, S) ==
    IF S = {} THEN st
    ELSE LET e == CHOOSE x \in S : \A y \in S : x[2] <= y[2]
         IN  DeliverAll(Deliver(st, e), S \ {e})

\* What the reconciliation must agree on: the player flags and max_ammo, and per
\* level the flags, check_count and the set of checked indices.
StoreView(st) ==
    [player |-> st.player_state,
     levels |-> [idx \in DOMAIN st.level_states |->
                    LET ls == st.level_states[idx]
                    IN  [completed |-> ls.completed, keys |-> ls.keys, has_map |-> ls.has_map,
                         unlocked |-> ls.unlocked, special |-> ls.special,
                         check_count |-> ls.check_count,
                         checked |-> { ls.checks[i] : i \in 0..(ls.check_count - 1) }]]]

\* The store init leaves in a session without a save and without slot data.
BaseStore == DefaultEpisode(FreshStore(ap_game))

\* The event of the step just taken.
EventOf(l) == <<IF l.op = "f_itemrecv" THEN "item" ELSE "loc", l.arg[1]>>

\* C18: init leaves the store of no event; if the store agrees with the one in
\* which a set S of events was delivered once each in a fixed order, then after
\* the delivery of an event e, new or repeated, it agrees with the one of
\* S with e added.  Hence every order and every duplication of the same events
\* ends with the same flags, max_ammo, check_count and set of checked indices.
C18_DeliveryOrderIrrelevant ==
    [][/\ (pc # "done" /\ pc' = "done") => StoreView(ap_state') = StoreView(BaseStore)
       /\ (pc = "done" /\ last'.op \in {"f_itemrecv", "f_locrecv"}) =>
              LET before == StoreView(ap_state)
                  after == StoreView(ap_state')
              IN  \A S \in SUBSET OrderEvents :
                      before = StoreView(DeliverAll(BaseStore, S)) =>
                          after = StoreView(DeliverAll(BaseStore, S \cup {EventOf(last')}))]_vars

\* C18 witness: index 1 of level (1,1) was reported before index 0, and the
\* backpack before the key; the store differs from the one of the fixed order
\* in the order of checks only.
C18_Witness ==
    /\ last = [op |-> "f_itemrecv", arg |-> <<ItemId(ap_game, 1), FALSE>>]
    /\ ap_state.level_states[0].checks[0] = 1
    /\ ap_state.level_states[0].checks[1] = 0
    /\ ap_state.player_state.backpack = 1
    /\ ap_state # DeliverAll(BaseStore, OrderEvents \ {<<"item", ItemId(ap_game, 5)>>})
    /\ StoreView(ap_state) =
           StoreView(DeliverAll(BaseStore, OrderEvents \ {<<"item", ItemId(ap_game, 5)>>}))

\* C19: a round of the scout loop lets init return success if a progressive
\* location is recorded; otherwise it runs update, sleeps, and lets init return
\* failure once the deadline has passed, and stays in the loop before that.
\* Init returns success only with a non-empty progressive set; a scout reply
\* that flags no location as progression records nothing, so the loop goes on
\* to the deadline.
C19_ScoutLoopExits ==
    [][/\ (pc = "scout" /\ last'.op = "ScoutPoll") =>
              IF ap_progressive_locations # {}
              THEN pc' = "done" /\ ap_initialized' /\ elapsed' = elapsed
              ELSE /\ elapsed' = elapsed + 1
                   /\ transport'.messages = << >>
                   /\ pc' = IF elapsed' > Deadline THEN "failed" ELSE "scout"
                   /\ ~ap_initialized'
       /\ (pc # "done" /\ pc' = "done") =>
              ap_progressive_locations' # {} /\ ap_initialized'
       /\ (pc = "scout" /\ pc' # "scout") => last'.op = "ScoutPoll"
       /\ (pc = "scout" /\ pc' = "failed") =>
              ap_progressive_locations' = {} /\ elapsed' > Deadline
       /\ (last'.op = "f_locinfo") =>
              ap_progressive_locations' =
                  ap_progressive_locations \cup
                      { li[1] : li \in { x \in last'.arg[1] : x[2] % 2 = 1 } }]_vars

\* C19 witness: init failed at the scout deadline although the message m1 was
\* drained into the cache by the polls; the session was authenticated.
C19_Witness ==
    /\ last.op = "ScoutPoll"
    /\ pc = "failed"
    /\ ap_was_connected
    /\ ap_progressive_locations = {}
    /\ elapsed = Deadline + 1
    /\ ap_cached_messages = <<"m1">>

\* The indices of the episodes enabled in an episodes array.
EnabledIn(episodes) == { i \in DOMAIN episodes : episodes[i] # 0 }

\* C20: when the connect loop observes Authenticated, the episodes enabled after
\* the step are those the slot data and the loaded save enabled if there is
\* any, and episode 1 alone if there is none; from then on, as long as init and
\* the session run, at least one episode is enabled.
C20_DefaultEpisode ==
    [][/\ (last' = [op |-> "ConnectPoll", arg |-> <<"Authenticated">>]) =>
              \A order \in EvalOrders :
                  LET loaded == LoadState([st |-> ap_state, queue |-> ap_item_queue,
                                           progressive |-> ap_progressive_locations,
                                           corrupt |-> mem_corrupt],
                                          disk[SaveDirName(transport.seed)], order).st.episodes
                  IN  /\ EnabledIn(loaded) = EnabledIn(ap_state.episodes)
                      /\ EnabledIn(ap_state'.episodes) =
                             IF EnabledIn(loaded) = {} THEN {0} ELSE EnabledIn(loaded)
                      /\ EnabledIn(loaded) # {} => ap_state'.episodes = loaded
       /\ (pc' \in {"scout", "done"}) => EnabledIn(ap_state'.episodes) # {}]_vars

\* C20 witness: in the second process the slot data enabled episode 2 alone, a
\* save was loaded, and episode 2 alone is enabled after the connect phase.
C20_Witness ==
    /\ last = [op |-> "ConnectPoll", arg |-> <<"Authenticated">>]
    /\ inits = 2
    /\ disk[SaveDirName("s1")].exists
    /\ EnabledIn(ap_state.episodes) = {1}

\* The indices recorded in a level record: checks[0..check_count-1].
CheckedList(level_state) == [k \in 1..level_state.check_count |-> level_state.checks[k - 1]]

\* C21: once init has returned, for every level the document save_state writes
\* has a checks array without -1 entries whose length is the level's
\* check_count, and load_state of that document into a freshly initialized
\* store yields a level whose checked list holds the saved indices and whose
\* check_count is their number.
C21_ChecksSurvivePersistence ==
    pc = "done" =>
        \A idx \in DOMAIN ap_state.level_states :
            LET ls == ap_state.level_states[idx]
                doc == serialize_level(ls)
                loaded == RoundTrip("episodes_first").st.level_states[idx]
            IN  /\ \A k \in 1..Len(doc.checks) : doc.checks[k] # JInt(-1)
                /\ Len(doc.checks) = ls.check_count
                /\ loaded.check_count = ls.check_count
                /\ CheckedList(loaded) = CheckedList(ls)

\* C22: once init has returned, the enabled_episodes array save_state writes has
\* one entry for each index 0..episode_count-1, holding the enabled flag of that
\* episode, and load_state of the document into a freshly initialized store
\* restores every episode's flag from the entry at its position.
C22_EpisodesPersistedPositionally ==
    pc = "done" =>
        \A order \in EvalOrders :
            LET n == ap_episode_count(ap_game)
                doc == SaveDoc(ap_state, ap_item_queue, ap_progressive_locations, order, 0)
                loaded == RoundTrip(order).st.episodes
            IN  /\ Len(doc.enabled_episodes) = n
                /\ \A i \in 0..(n - 1) :
                       /\ JAt(doc.enabled_episodes, i).t \in {"int", "bool"}
                       /\ (JAt(doc.enabled_episodes, i).v # 0) <=> (ap_state.episodes[i] # 0)
                       /\ (loaded[i] # 0) <=> (ap_state.episodes[i] # 0)

C24_EpisodeWritesInsideProfile ==
    ap_game # "none" =>
        /\ ~mem_corrupt
        /\ last.op = "f_episode" => last.arg[1] - 1 \in DOMAIN ap_state.episodes
        /\ \A i \in DOMAIN ap_state.episodes : \E n \in EpisodeCallbacks : n - 1 = i

\* C25: in every state after init's default loadout, under any interleaving of
\* item-received events and load_state, every max_ammo equals the catalog base
\* value when the backpack flag is 0 and twice the base value when it is set.
C25_MaxAmmoFollowsBackpack ==
    ap_game # "none" =>
        \A i \in 0..(ap_ammo_count(ap_game) - 1) :
            ap_state.player_state.max_ammo[i] =
                get_max_ammos(ap_game)[i + 1] *
                    (IF ap_state.player_state.backpack # 0 THEN 2 ELSE 1)

\* The flag that item number n of the catalog sets, read in the store st.
SilentFlag(st, n) ==
    CASE n = 1 -> st.level_states[ap_get_level_state(1, 1)].keys[0]
      [] n = 2 -> st.level_states[ap_get_level_state(1, 2)].has_map
      [] n = 3 -> st.player_state.backpack
      [] n = 4 -> st.player_state.weapon_owned[get_weapons_map(ap_game)[2001]]
      [] n = 5 -> st.level_states[ap_get_level_state(1, 2)].unlocked
      [] OTHER -> st.level_states[ap_get_level_state(1, 1)].completed

\* C26: an item-received event with notify=false sets the item's flag (key, map,
\* backpack, weapon, unlock, completion) and leaves the pending item queue, the
\* notification icons and the engine's grants unchanged, in game or not.
C26_SilentItemOnlySetsFlags ==
    [][(last'.op = "f_itemrecv" /\ last'.arg[2] = FALSE) =>
           /\ ap_item_queue' = ap_item_queue
           /\ ap_notification_icons' = ap_notification_icons
           /\ engine' = engine
           /\ \A n \in 1..6 :
                  last'.arg[1] = ItemId(ap_game, n) => SilentFlag(ap_state', n) = 1]_vars

\* A silent key arrived in game while an earlier item was still queued.
C26_Witness ==
    /\ last = [op |-> "f_itemrecv", arg |-> <<ItemId(ap_game, 1), FALSE>>]
    /\ ap_is_in_game = 1
    /\ Len(ap_item_queue) = 1
    /\ engine.given = << >>
    /\ ap_notification_icons = << >>
    /\ SilentFlag(ap_state, 1) = 1

\* The engine grants that a sequence of queued item ids stands for.
GrantsOf(queue) == [k \in 1..Len(queue) |-> GivenFor(queue[k])]

\* C27: a known item delivered with notify=true is granted to the engine exactly
\* once: at once if the player is in game; otherwise it is queued, no step grants
\* it before an update in game, and that update grants every queued item once and
\* empties the queue.  The grants made and the items queued together are always
\* the notified deliveries, none twice and none dropped.
C27_NotifiedItemGrantedOnce ==
    [][LET notified == /\ last'.op = "f_itemrecv"
                       /\ last'.arg[2]
                       /\ item_table_rows(last'.arg[1]) # {}
           drains == last'.op = "apdoom_update" /\ ap_is_in_game # 0
       IN  /\ (notified /\ ap_is_in_game # 0) =>
                  /\ engine'.given = Append(engine.given, GivenFor(last'.arg[1]))
                  /\ ap_item_queue' = ap_item_queue
           /\ (notified /\ ap_is_in_game = 0) =>
                  /\ engine'.given = engine.given
                  /\ ap_item_queue' = Append(ap_item_queue, last'.arg[1])
           /\ drains =>
                  /\ engine'.given = engine.given \o GrantsOf(ap_item_queue)
                  /\ ap_item_queue' = << >>
           /\ (~notified /\ ~drains) =>
                  /\ engine'.given = engine.given
                  /\ ap_item_queue' = ap_item_queue]_vars

\* A notified item arrived in game and was granted at once, as the third grant
\* of the session.
C27_Witness ==
    /\ last = [op |-> "f_itemrecv", arg |-> <<ItemId(ap_game, 5), TRUE>>]
    /\ ap_is_in_game = 1
    /\ ap_item_queue = << >>
    /\ engine.given = GrantsOf(<<ItemId(ap_game, 5), ItemId(ap_game, 8), ItemId(ap_game, 5)>>)

\* C28: a location-checked event whose id resolves to local index -1 (a
\* level-completion location) leaves check_count and checks of every level
\* unchanged, and no checks entry below check_count ever equals -1.
C28_CompletionLocationNotRecorded ==
    [][/\ (/\ last'.op = "f_locrecv"
           /\ find_location_found(last'.arg[1])
           /\ find_location(last'.arg[1]).index = -1) =>
              ap_state'.level_states = ap_state.level_states
       /\ \A idx \in DOMAIN ap_state'.level_states :
              \A k \in 0..(ap_state'.level_states[idx].check_count - 1) :
                  ap_state'.level_states[idx].checks[k] # -1]_vars

\* The completion location of level (1,1) was delivered after two of the
\* level's locations had been recorded.
C28_Witness ==
    /\ last = [op |-> "f_locrecv", arg |-> <<LocId(ap_game, 1, 1, -1)>>]
    /\ ap_state.level_states[ap_get_level_state(1, 1)].check_count = 2
    /\ ap_state.level_states[ap_get_level_state(1, 1)].checks[2] = -1

\* The file the connect loop is about to load.
LoadedDoc == disk[SaveDirName(transport.seed)]

\* The step is the connect loop's pass that calls load_state.
LoadStep == last' = [op |-> "ConnectPoll", arg |-> <<"Authenticated">>]

\* The values of the integer elements of a JSON array, in order.
IntValues(arr) ==
    LET ints == SelectSeq(arr, LAMBDA json : json.t = "int")
    IN  [k \in 1..Len(ints) |-> ints[k].v]

PlayerIntFields ==
    {"health", "armor_points", "armor_type", "backpack", "ready_weapon", "kill_count",
     "item_count", "secret_count"}

LevelFlagFields == {"completed", "has_map", "unlocked", "special"}

\* C29: load_state is a sparse merge: every field the document lacks or holds
\* with a non-integer value keeps its in-memory value, elements of the item queue
\* and of the progressive locations included; a missing file leaves the store,
\* the queue and the progressive locations as they are and init goes on.
C29_LoadIsSparseMerge ==
    [][LoadStep =>
           LET doc == LoadedDoc
               ps == ap_state.player_state
               after == ap_state'.player_state
           IN  /\ ~doc.exists =>
                      /\ after = ps
                      /\ \A idx \in DOMAIN ap_state.level_states :
                             LevelFieldsEqual(ap_state'.level_states[idx],
                                              ap_state.level_states[idx])
                      /\ ap_state'.ep = ap_state.ep /\ ap_state'.map = ap_state.map
                      /\ ap_state'.victory = ap_state.victory
                      /\ ap_item_queue' = ap_item_queue
                      /\ ap_progressive_locations' = ap_progressive_locations
                      /\ pc' \in {"scout", "done"}
               /\ doc.exists =>
                      /\ \A f \in PlayerIntFields :
                             doc.player[f].t # "int" => after[f] = ps[f]
                      /\ \A i \in DOMAIN ps.powers :
                             JAt(doc.player.powers, i).t # "int" => after.powers[i] = ps.powers[i]
                      /\ \A i \in DOMAIN ps.weapon_owned :
                             JAt(doc.player.weapon_owned, i).t # "int" =>
                                 after.weapon_owned[i] = ps.weapon_owned[i]
                      /\ \A i \in DOMAIN ps.ammo :
                             JAt(doc.player.ammo, i).t # "int" => after.ammo[i] = ps.ammo[i]
                      /\ \A idx \in DOMAIN ap_state.level_states :
                             LET ld == LevelDocAt(doc.episodes, idx \div ap_map_count(ap_game),
                                                  idx % ap_map_count(ap_game))
                             IN  \A f \in LevelFlagFields :
                                     ld[f].t # "int" =>
                                         ap_state'.level_states[idx][f] =
                                             ap_state.level_states[idx][f]
                      /\ doc.ep.t # "int" => ap_state'.ep = ap_state.ep
                      /\ doc.map.t # "int" => ap_state'.map = ap_state.map
                      /\ doc.victory.t # "int" => ap_state'.victory = ap_state.victory
                      /\ \A i \in 1..(ap_episode_count(ap_game) - 1) :
                             JAt(doc.enabled_episodes, i).t # "int" =>
                                 ap_state'.episodes[i] = ap_state.episodes[i]
                      /\ ap_item_queue' = ap_item_queue \o IntValues(doc.item_queue)
                      /\ ap_progressive_locations' =
                             ap_progressive_locations \cup
                                 { IntValues(doc.progressive_locations)[k] :
                                     k \in 1..Len(IntValues(doc.progressive_locations)) }]_vars

\* The integer a document member persists, 0 when it holds none.
Persisted(json) == IF json.t = "int" THEN json.v ELSE 0

\* The OR-merged flags of a store.
FlagView(st) ==
    [weapon_owned |-> st.player_state.weapon_owned,
     victory |-> st.victory,
     levels |-> [idx \in DOMAIN st.level_states |->
                    [f \in LevelFlagFields \cup {"keys"} |-> st.level_states[idx][f]]]]

\* The flags after load_state of doc1 and then of doc2 into the session as it is.
FlagsAfterLoads(doc1, doc2) ==
    LET l == [st |-> ap_state, queue |-> << >>, progressive |-> {}, corrupt |-> FALSE]
    IN  FlagView(LoadDoc(LoadDoc(l, doc1, "episodes_first"), doc2, "episodes_first").st)

\* C30: load_state never clears an OR-merged flag (weapon_owned, per-level
\* completed, keys, has_map, unlocked, special, and victory): each flag after load
\* is the bitwise OR of its in-memory value and the persisted value, so loading
\* partial documents in either order accumulates the same flags.
C30_FlagsOrMerged ==
    [][(LoadStep /\ LoadedDoc.exists) =>
           LET doc == LoadedDoc
               ps == ap_state.player_state
           IN  /\ \A i \in DOMAIN ps.weapon_owned :
                      ap_state'.player_state.weapon_owned[i] =
                          BitOr(ps.weapon_owned[i], Persisted(JAt(doc.player.weapon_owned, i)))
               /\ ap_state'.victory = BitOr(ap_state.victory, Persisted(doc.victory))
               /\ \A idx \in DOMAIN ap_state.level_states :
                      LET ld == LevelDocAt(doc.episodes, idx \div ap_map_count(ap_game),
                                           idx % ap_map_count(ap_game))
                          before == ap_state.level_states[idx]
                          after == ap_state'.level_states[idx]
                      IN  /\ \A f \in LevelFlagFields :
                                 after[f] = BitOr(before[f], Persisted(ld[f]))
                          /\ after.keys[0] = BitOr(before.keys[0], Persisted(ld.keys0))
                          /\ after.keys[1] = BitOr(before.keys[1], Persisted(ld.keys1))
                          /\ after.keys[2] = BitOr(before.keys[2], Persisted(ld.keys2))
                          /\ \A f \in LevelFlagFields : before[f] # 0 => after[f] # 0
                          /\ \A k \in 0..2 : before.keys[k] # 0 => after.keys[k] # 0
               /\ \A doc1, doc2 \in PartialDocs :
                      FlagsAfterLoads(doc1, doc2) = FlagsAfterLoads(doc2, doc1)]_vars

\* A completion and a key received before the load are still set after a
\* document holding 0 for the completion was loaded, next to the flags the
\* document brought.
C30_Witness ==
    /\ last = [op |-> "ConnectPoll", arg |-> <<"Authenticated">>]
    /\ inits = 1
    /\ ap_state.level_states[0].completed = 1
    /\ ap_state.level_states[0].keys[0] = 1
    /\ ap_state.level_states[0].keys[1] = 2
    /\ ap_state.level_states[0].special = 1
    /\ ap_state.victory = 1
    /\ ap_state.player_state.weapon_owned[0] = 1

\* The catalog locations of the episodes enabled in st, completion locations left out.
ScoutableIds(st) ==
    { LocId(ap_game, k[1], k[2], k[3]) :
        k \in { kk \in LocKeysOf(ap_game) :
                  /\ kk[1] \in EnabledEpisodes(st)
                  /\ kk[2] <= ap_map_count(ap_game)
                  /\ kk[3] # -1 } }

\* C31: init sends a scouting request only in the pass that loaded the save, and
\* only when the progressive set is empty after the load: then exactly one
\* request, for exactly the catalog locations of the enabled episodes whose local
\* index is not -1; with a non-empty progressive set nothing is sent.
C31_ScoutOnlyWhenNoProgression ==
    [][IF LoadStep
       THEN IF ap_progressive_locations' = {}
            THEN transport'.scouts = Append(transport.scouts, ScoutableIds(ap_state'))
            ELSE transport'.scouts = transport.scouts
       ELSE last'.op # "ProcessRestart" => transport'.scouts = transport.scouts]_vars

\* The second process loaded a save that holds progressive locations: init
\* returned without any scouting request.
C31_Witness ==
    /\ last = [op |-> "ConnectPoll", arg |-> <<"Authenticated">>]
    /\ inits = 2
    /\ ap_progressive_locations # {}
    /\ transport.scouts = << >>
    /\ pc = "done"

\* C32: when init passes the flip step with flip mode 1 ("always") every level of
\* every episode is flipped afterwards, and with flip mode 0 ("off") no level is.
C32_FlipAlwaysAndOff ==
    [][LoadStep =>
           /\ ap_state.flip_levels = 1 =>
                  \A ep \in 1..ap_episode_count(ap_game), map \in 1..ap_map_count(ap_game) :
                      ap_state'.level_states[ap_get_level_state(ep, map)].flipped = 1
           /\ ap_state.flip_levels = 0 =>
                  \A ep \in 1..ap_episode_count(ap_game), map \in 1..ap_map_count(ap_game) :
                      ap_state'.level_states[ap_get_level_state(ep, map)].flipped = 0]_vars

\* The second process, with a save loaded, passed the flip step in mode 1: the
\* last level of the last episode is flipped like the first.
C32_Witness ==
    /\ last = [op |-> "ConnectPoll", arg |-> <<"Authenticated">>]
    /\ inits = 2
    /\ ap_state.flip_levels = 1
    /\ ap_state.level_states[0].completed = 1
    /\ ap_state.level_states[0].flipped = 1
    /\ ap_state.level_states[ap_get_level_state(ap_episode_count(ap_game),
                                                ap_map_count(ap_game))].flipped = 1

\* The flipped flags of the levels of a store.
FlippedOf(st) == [idx \in DOMAIN st.level_states |-> st.level_states[idx].flipped]

\* C33: once init has returned, no item event, location event, slot callback,
\* check_location, complete_level, check_victory, update or save changes the
\* flipped flag of any level, and load_state of the file just saved or of any
\* other document would not change it either.
C33_FlippedFrozenAfterInit ==
    [][Returned =>
           /\ last'.op \in {"f_itemrecv", "f_locrecv", "f_slot_int", "f_episode",
                             "apdoom_check_location", "apdoom_complete_level",
                             "apdoom_check_victory", "apdoom_update", "apdoom_save_state"} =>
                  FlippedOf(ap_state') = FlippedOf(ap_state)
           /\ last'.op = "apdoom_save_state" =>
               \A doc \in PartialDocs \cup {disk'[ap_save_dir_name]} :
                  FlippedOf(LoadState([st |-> ap_state', queue |-> ap_item_queue',
                                       progressive |-> ap_progressive_locations',
                                       corrupt |-> FALSE], doc, "episodes_first").st)
                      = FlippedOf(ap_state')]_vars

\* In a session with seeded flips, some level flipped and some not, the slot
\* data set the flip mode to "always" after init had returned.
C33_Witness ==
    /\ last = [op |-> "f_slot_int", arg |-> <<"flip_levels", 1>>]
    /\ pc = "done"
    /\ disk[ap_save_dir_name].exists
    /\ \E i \in DOMAIN ap_state.level_states, j \in DOMAIN ap_state.level_states :
           ap_state.level_states[i].flipped = 1 /\ ap_state.level_states[j].flipped = 0

\* init is inside one of its two blocking phases.
InPhase == pc \in {"connect", "scout"}

\* C34: init always terminates: inside a blocking phase at most Deadline rounds
\* have been slept, the count never goes back while the phase lasts, the round
\* that passes the deadline makes init return failure, a failed call is left only
\* by a new call of apdoom_init, and every phase entered is eventually left for a
\* return, whatever the transport does.
C34_InitTerminates ==
    /\ [](InPhase => elapsed <= Deadline)
    /\ [][/\ (InPhase /\ pc' = pc) => elapsed' >= elapsed
          /\ (InPhase /\ elapsed' > Deadline) => pc' = "failed"
          /\ (pc = "failed" /\ pc' # "failed") => last'.op = "apdoom_init"]_vars
    /\ InPhase ~> (pc \in {"done", "failed"})

\* The second call of apdoom_init ran into the deadline of the scout phase.
C34_Witness ==
    /\ pc = "failed"
    /\ inits = 2
    /\ last.op = "ScoutPoll"
    /\ elapsed = Deadline + 1
    /\ ap_progressive_locations = {}

\* C35: the saved document holds no inventory slot of type 9, and save_state
\* followed by load_state into a fresh store restores every other slot at its
\* own index with its type and count, also behind a slot of type 9.
C35_InventoryRestoredInPlace ==
    pc = "done" =>
        LET inventory == ap_state.player_state.inventory
            doc == SaveDoc(ap_state, ap_item_queue, ap_progressive_locations,
                           "episodes_first", 0)
            loaded == RoundTrip("episodes_first").st.player_state.inventory
        IN  /\ \A k \in 1..Len(doc.player.inventory) : doc.player.inventory[k].type # JInt(9)
            /\ \A i \in DOMAIN inventory :
                   inventory[i].type # 9 => loaded[i] = inventory[i]

\* What tells one icon of the list from the others: its sprite and its text.
IconKey(ic) == <<ic.sprite, ic.text>>

IconRank(state) == CASE state = "PENDING" -> 0 [] state = "DROPPING" -> 1 [] OTHER -> 2

\* The icons of a list, as a set of positions.
IconsAt(icons) == 1..Len(icons)

\* C36: every notification icon moves through its states forward only.  A new
\* icon is Pending, or Dropping if the update that made it moved it on; an icon
\* that stays in the list keeps its state or moves one state on; Pending becomes
\* Dropping only for the first icon of the list or behind an icon that is lower
\* than the -160 line; Dropping becomes Hiding only with more than 350 resting
\* ticks; and an icon leaves the list only from Hiding, once its next step takes
\* it off the screen.
C36_IconStatesForwardOnly ==
    [][last'.op # "ProcessRestart" =>
           LET before == ap_notification_icons
               after == ap_notification_icons'
           IN  /\ \A j \in IconsAt(after) :
                      IF \E i \in IconsAt(before) : IconKey(before[i]) = IconKey(after[j])
                      THEN \A i \in IconsAt(before) :
                               IconKey(before[i]) = IconKey(after[j]) =>
                                   /\ IconRank(after[j].state) - IconRank(before[i].state) \in {0, 1}
                                   /\ (before[i].state = "PENDING" /\ after[j].state = "DROPPING") =>
                                          (j = 1 \/ after[j - 1].yf > -16000)
                                   /\ (before[i].state = "DROPPING" /\ after[j].state = "HIDING") =>
                                          after[j].t > NotifRestTicks
                      ELSE /\ after[j].state \in {"PENDING", "DROPPING"}
                           /\ after[j].state = "DROPPING" => last'.op = "apdoom_update"
               /\ \A i \in IconsAt(before) :
                      (\A j \in IconsAt(after) : IconKey(after[j]) # IconKey(before[i])) =>
                          /\ before[i].state = "HIDING"
                          /\ last'.op = "apdoom_update"
                          /\ IconHide(before[i]).xf < 100 * TruncDiv(-AP_NOTIF_SIZE, 2)]_vars

\* The icon of the key left the screen while the icon of the weapon, which had
\* waited Pending behind it, is still Dropping.
C36_Witness ==
    /\ last.op = "apdoom_update"
    /\ Len(ap_notification_icons) = 1
    /\ ap_notification_icons[1].sprite = 2001
    /\ ap_notification_icons[1].state = "DROPPING"
    /\ Len(engine.given) = 2
    /\ engine.given[1][1] = 5

\* C37: as long as apdoom_update keeps being called, every notification icon is
\* eventually removed, however many icons wait behind one another: a list that
\* holds icons is empty again later.
C37_IconsEventuallyRemoved ==
    (ap_notification_icons # << >>) ~> (ap_notification_icons = << >>)

\* Every item the session may deliver was shown with an icon, the icons waited
\* behind one another, and an update removed the last of them.
C37_Witness ==
    /\ last.op = "apdoom_update"
    /\ ap_notification_icons = << >>
    /\ Len(engine.given) = MaxQueue
    /\ \A k \in 1..Len(engine.given) : engine.given[k][1] \in ap_heretic_type_sprites

\* C38: within one session no step other than init's re-zeroing clears a progress
\* flag that is set: a level's completed, unlocked, has_map and key flags, the
\* player's backpack and weapon_owned flags, and the victory flag stay set across
\* every item event, location event, check_location, complete_level,
\* check_victory, update and load_state.
C38_ProgressFlagsMonotonic ==
    [][~StoreReset =>
           LET ps == ap_state.player_state
               after == ap_state'.player_state
           IN  /\ ps.backpack # 0 => after.backpack # 0
               /\ \A i \in DOMAIN ps.weapon_owned :
                      ps.weapon_owned[i] # 0 => after.weapon_owned[i] # 0
               /\ ap_state.victory # 0 => ap_state'.victory # 0
               /\ \A idx \in DOMAIN ap_state.level_states :
                      LET lv == ap_state.level_states[idx]
                          lv2 == ap_state'.level_states[idx]
                      IN  /\ \A f \in {"completed", "unlocked", "has_map"} :
                                 lv[f] # 0 => lv2[f] # 0
                          /\ \A k \in DOMAIN lv.keys : lv.keys[k] # 0 => lv2.keys[k] # 0]_vars

\* The connect loop of the current init attempt has seen Authenticated: the status
\* is reset by AP_Start and changes only while the loop polls.
AttemptAuthenticated == transport.status = "Authenticated"

\* C39: after an init attempt that re-zeroed the store and returned 0 before it
\* reached Authenticated (refused or connect timeout), apdoom_shutdown and
\* apdoom_save_state write nothing: the save on disk is not replaced by the
\* zero-initialized store.
C39_NoSaveAfterFailedConnect ==
    [][(last'.op \in {"apdoom_shutdown", "apdoom_save_state"} /\ ~AttemptAuthenticated)
           => disk' = disk]_vars

\* The indices of the episodes enabled in the store st.
EnabledIndices(st) == { i \in 0..(ap_episode_count(ap_game) - 1) : st.episodes[i] # 0 }

\* The rounds the search loop of the step just taken went through.
SearchRounds ==
    CASE last'.op = "ShowLevelSelect" -> ShowEpisodeSearch(engine.selected_ep, 0).rounds
      [] last'.op = "level_select_next_episode" ->
             NextEpisodeSearch((engine.selected_ep + 1) % ap_episode_count(ap_game),
                               engine.selected_ep, 0).rounds
      [] OTHER -> PrevEpisodeSearch(PrevEpisode(engine.selected_ep),
                                    engine.selected_ep, 0).rounds

\* C40: in the level-select screen of an episodic game, after ShowLevelSelect and
\* after every next-episode or previous-episode action selected_ep lies in
\* 0..episode_count-1 and is an enabled episode whenever one is enabled; the search
\* loop ends within as many rounds as there are episodes; with at most one
\* enabled episode the episode actions change nothing.
C40_SelectedEpisodeEnabled ==
    [][(/\ last'.op \in {"ShowLevelSelect", "level_select_next_episode",
                         "level_select_prev_episode"}
        /\ engine.gamemode # "commercial")
           => /\ engine'.selected_ep \in 0..(ap_episode_count(ap_game) - 1)
              /\ EnabledIndices(ap_state') # {} =>
                     engine'.selected_ep \in EnabledIndices(ap_state')
              /\ SearchRounds <= ap_episode_count(ap_game)
              /\ (last'.op # "ShowLevelSelect" /\ Cardinality(EnabledIndices(ap_state)) <= 1)
                     => (engine' = engine /\ ap_state' = ap_state)]_vars

\* The player has moved on from episode 0 over a disabled episode to the next
\* enabled one.
C40_Witness ==
    /\ last.op = "level_select_next_episode"
    /\ engine.gamemode = "retail"
    /\ engine.prev_ep = 0
    /\ engine.selected_ep = 2
    /\ EnabledIndices(ap_state) = {0, 2, 3}

====
